---------------------------- MODULE Spec2Model ----------------------------
(***************************************************************************)
(* Model of Network::WinHttpClient                                         *)
(* (windows-native-toolkit/libraries/network/winhttp_client.{h,cpp}):      *)
(* the connection pool, the request queue with its worker threads, the     *)
(* send-with-retry routine and the performance counters.                   *)
(*                                                                         *)
(* Threads of the program are the worker threads started by Initialize,    *)
(* the caller threads that enter the public methods, and the thread that   *)
(* runs Initialize / Shutdown.  Every action is one step of one thread     *)
(* between two accesses to shared state (a mutex-protected section, one    *)
(* atomic load or store, one transport call).                              *)
(***************************************************************************)
EXTENDS Integers, Sequences, FiniteSets, TLC

(***************************************************************************)
(* Bounds of the model.                                                    *)
(***************************************************************************)
NumWorkers == 2          \* value returned by std::thread::hardware_concurrency()
NumCallers == 2          \* threads that call SendRequest concurrently
MaxRetriesCfg == 2       \* m_retryConfig.maxRetries ranges over 0..MaxRetriesCfg
MaxPoolCap == 2          \* m_connectionPool->maxConnections ranges over 1..MaxPoolCap
MaxHandles == 3          \* connection handles WinHttpConnect hands out in one run
MaxCalls == 2            \* SendRequest calls entered in one run
MaxTasks == 2            \* SendRequestAsync calls entered in one run
MaxBatch == 2            \* requests in the list given to SendBatchRequests
MaxBatchCalls == 1       \* SendBatchRequests calls entered in one run
MaxStreams == 1          \* SendStreamRequest calls entered in one run
MaxChunks == 2           \* non-empty reads of one streamed response
MaxClock == 6            \* minutes the clock of the cache runs

(***************************************************************************)
(* Program constants.                                                      *)
(***************************************************************************)
InitialDelayMs == 1000   \* RetryConfig::initialDelay
BackoffMultiplier == 2   \* RetryConfig::backoffMultiplier
DefaultCacheTTL == 5     \* m_defaultCacheTTL, in minutes

Workers == 1 .. NumWorkers
Callers == (NumWorkers + 1) .. (NumWorkers + NumCallers)
\* the threads std::async starts for one SendBatchRequests call
BatchTask(i) == NumWorkers + NumCallers + i
BatchTasks == {BatchTask(i) : i \in 1 .. MaxBatch}
Executors == Workers \cup Callers \cup BatchTasks

Hosts == {"hostA", "hostB"}

\* enum class HttpStatusCode: the values a server answers with in the model
StatusCodes == {200, 404, 500, 503}
\* RetryConfig::retryableStatusCodes
RetryableStatusCodes == {500, 502, 503}
\* an HttpStatusCode member that was never written (HttpResponse has no
\* initializer for statusCode): reading it yields an arbitrary value
Indeterminate == -1
\* HttpResponse{} value-initializes statusCode
ZeroStatus == 0

NullHandle == 0

\* mutant: the lower end of the 2xx range is left out
IsSuccessStatusCode_Above200(statusCode) == statusCode > 200 /\ statusCode < 300

\* lines 364-366
IsSuccessStatusCode(statusCode) == statusCode >= 200 /\ statusCode < 300

\* `HttpResponse response;` : success = false, contentLength = 0, statusCode unset
DefaultResponse ==
    [statusCode |-> Indeterminate, statusText |-> "", contentLength |-> 0,
     success |-> FALSE]

\* `HttpResponse{}`
EmptyResponse ==
    [statusCode |-> ZeroStatus, statusText |-> "", contentLength |-> 0,
     success |-> FALSE]

RECURSIVE Pow(_, _)
Pow(b, k) == IF k = 0 THEN 1 ELSE b * Pow(b, k - 1)

\* mutant: the exponent counts the attempts from 1
BackoffDelay_ExponentFromOne(retryCount) ==
    InitialDelayMs * Pow(BackoffMultiplier, retryCount + 1)

\* static_cast<int>(initialDelay.count() * std::pow(backoffMultiplier, retryCount))
BackoffDelay(retryCount) == InitialDelayMs * Pow(BackoffMultiplier, retryCount)

Last(s) == s[Len(s)]

VARIABLES
    \* ---- WinHttpClient members
    isInitialized,        \* m_isInitialized
    isShuttingDown,       \* m_isShuttingDown
    hSession,             \* m_hSession: "null" | "open" | "closed"
    connections,          \* m_connectionPool->connections (FIFO of handles)
    currentConnections,   \* m_connectionPool->currentConnections
    maxConnections,       \* m_connectionPool->maxConnections
    maxRetries,           \* m_retryConfig.maxRetries
    env,                  \* what the callers ask for and the transport answers:
                          \* [configs, outcomes, bodySizes, latencies,
                          \*  onErrorGiven, onSuccessThrows]
    requests,             \* m_requestQueue->requests (FIFO of task ids)
    isRunning,            \* m_requestQueue->isRunning
    queueMutex,           \* holder of m_requestQueue->mutex, 0 when free
    waiters,              \* workers blocked inside m_requestQueue->condition.wait
    workerThreads,        \* m_workerThreads: the workers started and not yet joined
    totalRequests,        \* m_stats->totalRequests
    successfulRequests,   \* m_stats->successfulRequests
    failedRequests,       \* m_stats->failedRequests
    totalBytes,           \* m_stats->totalBytes
    averageResponseTime,  \* m_stats->averageResponseTime, the rational <<num, den>>
    \* ---- the transport: every connection handle WinHttpConnect returned
    handles,              \* handles[h] = [host, open, closes]
    \* ---- per thread running SendRequestWithRetry
    pc,                   \* position in SendRequest / SendRequestWithRetry
    config,               \* the HttpRequestConfig: [host, urlOk]
    retryCount,
    response,
    hConnect,
    attempts,             \* history: outcome of every pass of the retry loop of the call
    sleeps,               \* history: every backoff sleep of the call, in ms
    statTmp,              \* locals of UpdatePerformanceStats
    \* ---- worker threads
    wpc,                  \* position in WorkerThreadFunction
    wtask,                \* the task (request) the worker took from the queue
    \* ---- thread running Initialize / Shutdown
    cpc,
    \* ---- thread running SendRequestAsync
    apc,
    \* ---- SendRequestAsync closures and history
    tasks,                \* tasks[i] = [cfg, onError, state, onSuccessCalls, onErrorCalls]
    calls,                \* SendRequest calls entered so far
    doneCalls,            \* history: SendRequestWithRetry calls that returned
    doneOk,               \* history: ... of which returned success = true
    queuedAtStop,         \* history: tasks in the queue when Shutdown cleared isRunning
    runningAtStop,        \* history: tasks being executed when Shutdown began
    \* ---- thread running SendBatchRequests
    bpc,                  \* position in SendBatchRequests
    batchConfigs,         \* the argument configs
    batchOnComplete,      \* whether the argument onComplete is non-empty
    futures,              \* futures[i] = [state, value, log] of the i-th std::async
    responses,            \* the local vector responses
    delivered,            \* history: the list onComplete was called with
    completionOrder,      \* history: the order in which the tasks of the call ended
    batchCalls,           \* SendBatchRequests calls entered so far
    batchReturned,        \* history: calls that spawned their tasks and returned
    onCompleteCalls,      \* history: invocations of onComplete
    \* ---- SendStreamRequest and its detached threads
    streams,              \* streams[s] = [pc, cfg, onData, onComplete, onError,
                          \*   hConnect, hRequest, bytesRead, chunks, events]
    \* ---- the response cache
    cache,                \* m_cache: key -> CacheEntry, NoEntry where there is none
    now,                  \* the clock, in minutes
    lastPut,              \* history: the arguments and the time of the last put per key
    lookup,               \* history: the last get: [key, hit, response, at] and
                          \*   put, the last put of the key before it
    \* ---- GetPerformanceMetrics
    metrics,              \* the PerformanceMetrics the last call returned
    samples,              \* history: the responseTime of every statistics update
                          \*   since the counters were last zero
    \* ---- Initialize
    initFailed,           \* history: some Initialize call has returned false
    ipc,                  \* position of a second thread that calls Initialize
    surplusThreads        \* worker threads started by that second call

clientVars == <<isInitialized, isShuttingDown, hSession, maxRetries, env>>
poolVars == <<connections, currentConnections, maxConnections, handles>>
queueVars == <<requests, isRunning, queueMutex, waiters, workerThreads>>
statVars == <<totalRequests, successfulRequests, failedRequests, totalBytes,
              averageResponseTime>>
callVars == <<pc, config, retryCount, response, hConnect, attempts, sleeps, statTmp>>
workerVars == <<wpc, wtask>>
histVars == <<tasks, calls, doneCalls, doneOk, queuedAtStop, runningAtStop>>
batchVars == <<bpc, batchConfigs, batchOnComplete, futures, responses, delivered,
               completionOrder, batchCalls, batchReturned, onCompleteCalls>>
\* the state of the entry points beside SendRequest and SendRequestAsync
streamVars == <<streams>>
cacheVars == <<cache, now, lastPut, lookup>>
metricsVars == <<metrics, samples>>
lifeVars == <<initFailed, ipc, surplusThreads>>
facadeVars == <<batchVars, streamVars, cacheVars, metricsVars, lifeVars>>
\* what the threads of SendBatchRequests leave alone
nonBatchVars == <<streamVars, cacheVars, metricsVars, lifeVars>>
\* what the threads of SendStreamRequest leave alone
nonStreamVars == <<batchVars, cacheVars, metricsVars, lifeVars>>
\* what the operations of the cache leave alone
nonCacheVars == <<batchVars, streamVars, metricsVars, lifeVars>>
\* what UpdatePerformanceStats and the metrics leave alone
nonMetricsVars == <<batchVars, streamVars, cacheVars, lifeVars>>
\* what Initialize leaves alone
nonLifeVars == <<batchVars, streamVars, cacheVars, metricsVars>>

vars == <<clientVars, poolVars, queueVars, statVars, callVars, workerVars, cpc,
          apc, histVars, facadeVars>>


(***************************************************************************)
(* Arithmetic of the running mean, kept exact as a fraction in lowest      *)
(* terms.                                                                  *)
(***************************************************************************)
RECURSIVE Gcd(_, _)
Gcd(a, b) == IF b = 0 THEN a ELSE Gcd(b, a % b)

Frac(n, d) == LET g == Gcd(n, d) IN <<n \div g, d \div g>>

\* responseTime.count() of one call, in ms
Latencies == {100, 300}
\* responseData.size() of one answer
BodySizes == {0, 1}

\* outcomes of one pass through the try block once a connection is held
RoundTripFailures == {"reqfail", "sendfail", "recvfail", "exception"}
\* outcome of a pass that ended before a connection was held
Outcome(kind) == [kind |-> kind, status |-> ZeroStatus]
RoundTripOutcomes ==
    [kind : {"status"}, status : StatusCodes]
        \cup [kind : RoundTripFailures, status : {ZeroStatus}]

(***************************************************************************)
(* The transport.                                                          *)
(***************************************************************************)
\* WinHttpCloseHandle(h) on a connection handle
CloseHandle(hs, h) ==
    [hs EXCEPT ![h] = [@ EXCEPT !.open = FALSE, !.closes = @ + 1]]

\* WinHttpConnect(m_hSession, host, port, 0) returning a fresh handle
NewHandle(hs, host) == Append(hs, [host |-> host, open |-> TRUE, closes |-> 0])

\* values of the locals of a thread that is not inside SendRequestWithRetry
NoConfig == [host |-> "hostA", urlOk |-> TRUE]
NoStatTmp == [avg |-> <<0, 1>>, n |-> 0]

(***************************************************************************)
(* SendRequestWithRetry, one action per step of the calling thread e.      *)
(***************************************************************************)
\* lines 396-397: locals of a new call
BeginRetryLoop(e, cfg) ==
    /\ pc' = [pc EXCEPT ![e] = "loop"]
    /\ config' = [config EXCEPT ![e] = cfg]
    /\ retryCount' = [retryCount EXCEPT ![e] = 0]
    /\ response' = [response EXCEPT ![e] = DefaultResponse]
    /\ hConnect' = [hConnect EXCEPT ![e] = NullHandle]
    /\ attempts' = [attempts EXCEPT ![e] = <<>>]
    /\ sleeps' = [sleeps EXCEPT ![e] = <<>>]
    /\ statTmp' = [statTmp EXCEPT ![e] = NoStatTmp]

\* lines 399-413: loop test and WinHttpCrackUrl
LoopHead(e) ==
    /\ pc[e] = "loop"
    /\ IF retryCount[e] > maxRetries
       THEN /\ pc' = [pc EXCEPT ![e] = "stat_total"]
            /\ UNCHANGED response
            /\ UNCHANGED attempts
       ELSE IF ~config[e].urlOk
       THEN /\ response' = [response EXCEPT ![e].statusText = "Failed to parse URL"]
            /\ attempts' = [attempts EXCEPT ![e] = Append(@, Outcome("parsefail"))]
            /\ pc' = [pc EXCEPT ![e] = "stat_total"]
       ELSE /\ pc' = [pc EXCEPT ![e] = "acquire"]
            /\ UNCHANGED <<response, attempts>>
    /\ UNCHANGED <<facadeVars, clientVars, poolVars, queueVars, statVars, workerVars, cpc, apc,
                   histVars, config, retryCount, hConnect, sleeps, statTmp>>

\* mutant: a request that got no connection backs off and tries again
GetConnection_FailureRetried(e) ==
    /\ pc[e] = "acquire"
    /\ \/ /\ connections # <<>>
          /\ hConnect' = [hConnect EXCEPT ![e] = Head(connections)]
          /\ connections' = Tail(connections)
          /\ currentConnections' = currentConnections - 1
          /\ pc' = [pc EXCEPT ![e] = "roundtrip"]
          /\ UNCHANGED <<handles, response, attempts>>
       \/ /\ connections = <<>>
          /\ hSession = "open"
          /\ Len(handles) < MaxHandles
          /\ handles' = NewHandle(handles, config[e].host)
          /\ hConnect' = [hConnect EXCEPT ![e] = Len(handles) + 1]
          /\ pc' = [pc EXCEPT ![e] = "roundtrip"]
          /\ UNCHANGED <<connections, currentConnections, response, attempts>>
       \/ /\ connections = <<>>
          /\ hConnect' = [hConnect EXCEPT ![e] = NullHandle]
          /\ response' = [response EXCEPT ![e].statusText = "Failed to get connection"]
          /\ attempts' = [attempts EXCEPT ![e] = Append(@, Outcome("connfail"))]
          /\ pc' = [pc EXCEPT ![e] = IF retryCount[e] < maxRetries THEN "sleep"
                                     ELSE "stat_total"]
          /\ UNCHANGED <<connections, currentConnections, handles>>
    /\ UNCHANGED <<facadeVars, clientVars, maxConnections, queueVars, statVars, workerVars, cpc, apc,
                   histVars, config, retryCount, sleeps, statTmp>>

\* lines 577-591 (called at 416), and the null test at 421-424
GetConnection(e) ==
    /\ pc[e] = "acquire"
    /\ \/ /\ connections # <<>>
          /\ hConnect' = [hConnect EXCEPT ![e] = Head(connections)]
          /\ connections' = Tail(connections)
          /\ currentConnections' = currentConnections - 1
          /\ pc' = [pc EXCEPT ![e] = "roundtrip"]
          /\ UNCHANGED <<handles, response, attempts>>
       \/ /\ connections = <<>>
          /\ hSession = "open"
          /\ Len(handles) < MaxHandles
          /\ handles' = NewHandle(handles, config[e].host)
          /\ hConnect' = [hConnect EXCEPT ![e] = Len(handles) + 1]
          /\ pc' = [pc EXCEPT ![e] = "roundtrip"]
          /\ UNCHANGED <<connections, currentConnections, response, attempts>>
       \/ /\ connections = <<>>
          /\ hConnect' = [hConnect EXCEPT ![e] = NullHandle]
          /\ response' = [response EXCEPT ![e].statusText = "Failed to get connection"]
          /\ attempts' = [attempts EXCEPT ![e] = Append(@, Outcome("connfail"))]
          /\ pc' = [pc EXCEPT ![e] = "stat_total"]
          /\ UNCHANGED <<connections, currentConnections, handles>>
    /\ UNCHANGED <<facadeVars, clientVars, maxConnections, queueVars, statVars, workerVars, cpc, apc,
                   histVars, config, retryCount, sleeps, statTmp>>

\* the response ProcessRequest returns (lines 493-558) for outcome o
ProcessedResponse(o, len) ==
    IF o.kind = "sendfail"
    THEN [DefaultResponse EXCEPT !.statusText = "Failed to send request"]
    ELSE IF o.kind = "recvfail"
    THEN [DefaultResponse EXCEPT !.statusText = "Failed to receive response"]
    ELSE [statusCode |-> o.status, statusText |-> "status", contentLength |-> len,
          success |-> IsSuccessStatusCode(o.status)]

\* lines 426-447: WinHttpOpenRequest, ProcessRequest, WinHttpCloseHandle(hRequest);
\* an exception leaves the try block for the handler at 478-481: the local
\* hConnect goes out of scope, the connection is neither returned nor closed
RoundTrip(e) ==
    /\ pc[e] = "roundtrip"
    /\ \E o \in env.outcomes, len \in env.bodySizes \cup {0} :
          /\ o.kind \in RoundTripFailures => len = 0
          /\ attempts' = [attempts EXCEPT ![e] = Append(@, o)]
          /\ IF o.kind = "reqfail"
             THEN /\ response' = [response EXCEPT
                                    ![e].statusText = "Failed to create request"]
                  /\ pc' = [pc EXCEPT ![e] = "return"]
                  /\ UNCHANGED hConnect
             ELSE IF o.kind = "exception"
             THEN /\ response' = [response EXCEPT ![e].statusText = "Exception"]
                  /\ hConnect' = [hConnect EXCEPT ![e] = NullHandle]
                  /\ pc' = [pc EXCEPT ![e] = "stat_total"]
             ELSE /\ response' = [response EXCEPT ![e] = ProcessedResponse(o, len)]
                  /\ pc' = [pc EXCEPT ![e] = "return"]
                  /\ UNCHANGED hConnect
    /\ UNCHANGED <<facadeVars, clientVars, poolVars, queueVars, statVars, workerVars, cpc, apc,
                   histVars, config, retryCount, sleeps, statTmp>>

\* mutant: the connection is retained whatever the counter says
ReturnConnection_AlwaysRetain(e) ==
    /\ pc[e] = "return"
    /\ IF hConnect[e] = NullHandle
       THEN UNCHANGED <<connections, currentConnections, handles>>
       ELSE /\ connections' = Append(connections, hConnect[e])
            /\ currentConnections' = currentConnections + 1
            /\ UNCHANGED handles
    /\ hConnect' = [hConnect EXCEPT ![e] = NullHandle]
    /\ pc' = [pc EXCEPT ![e] =
                IF Last(attempts[e]).kind = "reqfail" THEN "stat_total" ELSE "check"]
    /\ UNCHANGED <<facadeVars, clientVars, maxConnections, queueVars, statVars, workerVars, cpc, apc,
                   histVars, config, retryCount, response, attempts, sleeps, statTmp>>

\* mutant: the attempt goes on to the retry decision with its connection
ReturnConnection_Kept(e) ==
    /\ pc[e] = "return"
    /\ pc' = [pc EXCEPT ![e] =
                IF Last(attempts[e]).kind = "reqfail" THEN "stat_total" ELSE "check"]
    /\ UNCHANGED <<facadeVars, clientVars, poolVars, queueVars, statVars, workerVars, cpc, apc,
                   histVars, config, retryCount, response, hConnect, attempts, sleeps, statTmp>>

\* lines 593-605 (called at 438 and 448)
ReturnConnection(e) ==
    /\ pc[e] = "return"
    /\ IF hConnect[e] = NullHandle
       THEN UNCHANGED <<connections, currentConnections, handles>>
       ELSE IF currentConnections < maxConnections
       THEN /\ connections' = Append(connections, hConnect[e])
            /\ currentConnections' = currentConnections + 1
            /\ UNCHANGED handles
       ELSE /\ handles' = CloseHandle(handles, hConnect[e])
            /\ UNCHANGED <<connections, currentConnections>>
    /\ hConnect' = [hConnect EXCEPT ![e] = NullHandle]
    /\ pc' = [pc EXCEPT ![e] =
                IF Last(attempts[e]).kind = "reqfail" THEN "stat_total" ELSE "check"]
    /\ UNCHANGED <<facadeVars, clientVars, maxConnections, queueVars, statVars, workerVars, cpc, apc,
                   histVars, config, retryCount, response, attempts, sleeps, statTmp>>

\* mutant: every failed response is retried
ShouldRetry_AnyFailure(statusCode) == {TRUE}

\* lines 455-462: the loop over retryableStatusCodes; an unset statusCode
\* compares equal or not
ShouldRetry(statusCode) ==
    IF statusCode = Indeterminate THEN BOOLEAN
    ELSE {statusCode \in RetryableStatusCodes}

\* mutant: the retry budget is tested one attempt early
RetryDecision_OneShort(e) ==
    /\ pc[e] = "check"
    /\ IF response[e].success \/ retryCount[e] + 1 >= maxRetries
       THEN pc' = [pc EXCEPT ![e] = "stat_total"]
       ELSE \E shouldRetry \in ShouldRetry(response[e].statusCode) :
               pc' = [pc EXCEPT ![e] = IF shouldRetry THEN "sleep" ELSE "stat_total"]
    /\ UNCHANGED <<facadeVars, clientVars, poolVars, queueVars, statVars, workerVars, cpc, apc,
                   histVars, config, retryCount, response, hConnect, attempts,
                   sleeps, statTmp>>

\* lines 450-466
RetryDecision(e) ==
    /\ pc[e] = "check"
    /\ IF response[e].success \/ retryCount[e] >= maxRetries
       THEN pc' = [pc EXCEPT ![e] = "stat_total"]
       ELSE \E shouldRetry \in ShouldRetry(response[e].statusCode) :
               pc' = [pc EXCEPT ![e] = IF shouldRetry THEN "sleep" ELSE "stat_total"]
    /\ UNCHANGED <<facadeVars, clientVars, poolVars, queueVars, statVars, workerVars, cpc, apc,
                   histVars, config, retryCount, response, hConnect, attempts,
                   sleeps, statTmp>>

\* lines 468-476: sleep_for, retryCount++
BackoffSleep(e) ==
    /\ pc[e] = "sleep"
    /\ sleeps' = [sleeps EXCEPT ![e] = Append(@, BackoffDelay(retryCount[e]))]
    /\ retryCount' = [retryCount EXCEPT ![e] = @ + 1]
    /\ pc' = [pc EXCEPT ![e] = "loop"]
    /\ UNCHANGED <<facadeVars, clientVars, poolVars, queueVars, statVars, workerVars, cpc, apc,
                   histVars, config, response, hConnect, attempts, statTmp>>

(***************************************************************************)
(* UpdatePerformanceStats (lines 560-575, called at 488): one action per   *)
(* atomic operation on m_stats.                                            *)
(***************************************************************************)
\* line 561
StatTotal(e) ==
    /\ pc[e] = "stat_total"
    /\ totalRequests' = totalRequests + 1
    /\ pc' = [pc EXCEPT ![e] = "stat_outcome"]
    /\ UNCHANGED <<facadeVars, clientVars, poolVars, queueVars, workerVars, cpc, apc, histVars,
                   successfulRequests, failedRequests, totalBytes,
                   averageResponseTime, config, retryCount, response, hConnect,
                   attempts, sleeps, statTmp>>

\* mutant: the outcome of the call is not looked at
StatOutcome_AlwaysFailed(e) ==
    /\ pc[e] = "stat_outcome"
    /\ failedRequests' = failedRequests + 1
    /\ pc' = [pc EXCEPT ![e] = "stat_bytes"]
    /\ UNCHANGED <<facadeVars, clientVars, poolVars, queueVars, workerVars, cpc, apc, histVars,
                   totalRequests, successfulRequests, totalBytes,
                   averageResponseTime, config, retryCount, response, hConnect,
                   attempts, sleeps, statTmp>>

\* lines 563-567
StatOutcome(e) ==
    /\ pc[e] = "stat_outcome"
    /\ IF response[e].success
       THEN /\ successfulRequests' = successfulRequests + 1
            /\ UNCHANGED failedRequests
       ELSE /\ failedRequests' = failedRequests + 1
            /\ UNCHANGED successfulRequests
    /\ pc' = [pc EXCEPT ![e] = "stat_bytes"]
    /\ UNCHANGED <<facadeVars, clientVars, poolVars, queueVars, workerVars, cpc, apc, histVars,
                   totalRequests, totalBytes, averageResponseTime, config,
                   retryCount, response, hConnect, attempts, sleeps, statTmp>>

\* line 569
StatBytes(e) ==
    /\ pc[e] = "stat_bytes"
    /\ totalBytes' = totalBytes + response[e].contentLength
    /\ pc' = [pc EXCEPT ![e] = "stat_loadavg"]
    /\ UNCHANGED <<facadeVars, clientVars, poolVars, queueVars, workerVars, cpc, apc, histVars,
                   totalRequests, successfulRequests, failedRequests,
                   averageResponseTime, config, retryCount, response, hConnect,
                   attempts, sleeps, statTmp>>

\* line 572
StatLoadAvg(e) ==
    /\ pc[e] = "stat_loadavg"
    /\ statTmp' = [statTmp EXCEPT ![e].avg = averageResponseTime]
    /\ pc' = [pc EXCEPT ![e] = "stat_loadn"]
    /\ UNCHANGED <<facadeVars, clientVars, poolVars, queueVars, statVars, workerVars, cpc, apc,
                   histVars, config, retryCount, response, hConnect, attempts, sleeps>>

\* line 573, first load of totalRequests (the factor totalRequests - 1)
StatLoadCount(e) ==
    /\ pc[e] = "stat_loadn"
    /\ statTmp' = [statTmp EXCEPT ![e].n = totalRequests]
    /\ pc' = [pc EXCEPT ![e] = "stat_store"]
    /\ UNCHANGED <<facadeVars, clientVars, poolVars, queueVars, statVars, workerVars, cpc, apc,
                   histVars, config, retryCount, response, hConnect, attempts, sleeps>>

\* mutant: the previous mean is not weighted by the previous count
NewAverage_Unweighted(avg, n, m, t) ==
    IF n = 0 \/ m = 0 \/ avg[2] = 0 THEN <<0, 0>>
    ELSE Frac(avg[1] + t * avg[2], avg[2] * 2)

\* (currentAvg * (n - 1) + t) / m for the two loaded counts n and m; with a
\* count of 0 the unsigned factor wraps or the division is by zero, and a
\* mean that is such a value already (<<0, 0>>) stays one
NewAverage(avg, n, m, t) ==
    IF n = 0 \/ m = 0 \/ avg[2] = 0 THEN <<0, 0>>
    ELSE Frac(avg[1] * (n - 1) + t * avg[2], avg[2] * m)

\* lines 573-574, second load of totalRequests (the divisor) and the store,
\* with the responseTime measured at 485-486; then SendRequestWithRetry
\* returns (line 490)
StatStore(e) ==
    /\ pc[e] = "stat_store"
    /\ \E t \in env.latencies :
          /\ averageResponseTime' =
                NewAverage(statTmp[e].avg, statTmp[e].n, totalRequests, t)
          /\ samples' = Append(samples, t)
    /\ pc' = [pc EXCEPT ![e] = "ret"]
    /\ doneCalls' = doneCalls + 1
    /\ doneOk' = doneOk + (IF response[e].success THEN 1 ELSE 0)
    /\ UNCHANGED <<nonMetricsVars, metrics, clientVars, poolVars, queueVars, workerVars, cpc, apc, tasks, calls,
                   queuedAtStop, runningAtStop,
                   totalRequests, successfulRequests, failedRequests, totalBytes,
                   config, retryCount, response, hConnect, attempts, sleeps, statTmp>>

\* lines 560-575 run without another thread in between: the whole update
\* as one step, for the specifications in which the counters play no part
UpdatePerformanceStats(e) ==
    /\ pc[e] = "stat_total"
    /\ totalRequests' = totalRequests + 1
    /\ IF response[e].success
       THEN /\ successfulRequests' = successfulRequests + 1
            /\ UNCHANGED failedRequests
       ELSE /\ failedRequests' = failedRequests + 1
            /\ UNCHANGED successfulRequests
    /\ totalBytes' = totalBytes + response[e].contentLength
    /\ \E t \in env.latencies :
          /\ averageResponseTime' =
                NewAverage(averageResponseTime, totalRequests + 1, totalRequests + 1, t)
          /\ samples' = Append(samples, t)
    /\ pc' = [pc EXCEPT ![e] = "ret"]
    /\ doneCalls' = doneCalls + 1
    /\ doneOk' = doneOk + (IF response[e].success THEN 1 ELSE 0)
    /\ UNCHANGED <<nonMetricsVars, metrics, clientVars, poolVars, queueVars, workerVars, cpc, apc, tasks, calls,
                   queuedAtStop, runningAtStop, config, retryCount, response,
                   hConnect, attempts, sleeps, statTmp>>

\* SendRequestWithRetry with the statistics updated in one step
SendRequestWithRetryThenStats(e) ==
    \/ LoopHead(e)
    \/ GetConnection(e)
    \/ RoundTrip(e)
    \/ ReturnConnection(e)
    \/ RetryDecision(e)
    \/ BackoffSleep(e)
    \/ UpdatePerformanceStats(e)

\* the same with maxRetries = 0, where line 451 always leaves the loop and
\* the sleep at 469 is never reached
SendRequestWithoutRetry(e) ==
    \/ LoopHead(e)
    \/ GetConnection(e)
    \/ RoundTrip(e)
    \/ ReturnConnection(e)
    \/ RetryDecision(e)
    \/ UpdatePerformanceStats(e)

\* the steps a request with an unparsable URL takes: line 411 leaves the loop
SendRequestWithBadUrl(e) ==
    \/ LoopHead(e)
    \/ UpdatePerformanceStats(e)

SendRequestWithRetry(e) ==
    \/ LoopHead(e)
    \/ GetConnection(e)
    \/ RoundTrip(e)
    \/ ReturnConnection(e)
    \/ RetryDecision(e)
    \/ BackoffSleep(e)
    \/ StatTotal(e)
    \/ StatOutcome(e)
    \/ StatBytes(e)
    \/ StatLoadAvg(e)
    \/ StatLoadCount(e)
    \/ StatStore(e)

(***************************************************************************)
(* SendRequest (lines 104-110) on caller thread c.                         *)
(***************************************************************************)
Configs == [host : Hosts, urlOk : BOOLEAN]

\* mutant: the request is sent whether or not the client is initialized
SendRequest_NoInitCheck(c) ==
    /\ pc[c] = "idle"
    /\ calls < MaxCalls
    /\ calls' = calls + 1
    /\ \E cfg \in env.configs : BeginRetryLoop(c, cfg)
    /\ UNCHANGED <<facadeVars, clientVars, poolVars, queueVars, statVars, workerVars, cpc, apc,
                   tasks, doneCalls, doneOk, queuedAtStop, runningAtStop>>

\* lines 104-110: the test of m_isInitialized, HttpResponse{} or the call of
\* SendRequestWithRetry
SendRequest(c) ==
    /\ pc[c] = "idle"
    /\ calls < MaxCalls
    /\ calls' = calls + 1
    /\ \E cfg \in env.configs :
          IF ~isInitialized
          THEN /\ response' = [response EXCEPT ![c] = EmptyResponse]
               /\ pc' = [pc EXCEPT ![c] = "ret"]
               /\ UNCHANGED <<config, retryCount, hConnect, attempts, sleeps, statTmp>>
          ELSE BeginRetryLoop(c, cfg)
    /\ UNCHANGED <<facadeVars, clientVars, poolVars, queueVars, statVars, workerVars, cpc, apc,
                   tasks, doneCalls, doneOk, queuedAtStop, runningAtStop>>

\* the locals of SendRequestWithRetry go out of scope
EndCall(e) ==
    /\ config' = [config EXCEPT ![e] = NoConfig]
    /\ retryCount' = [retryCount EXCEPT ![e] = 0]
    /\ response' = [response EXCEPT ![e] = DefaultResponse]
    /\ hConnect' = [hConnect EXCEPT ![e] = NullHandle]
    /\ attempts' = [attempts EXCEPT ![e] = <<>>]
    /\ sleeps' = [sleeps EXCEPT ![e] = <<>>]
    /\ statTmp' = [statTmp EXCEPT ![e] = NoStatTmp]

\* line 109: the caller receives the response
SendRequestReturn(c) ==
    /\ pc[c] = "ret"
    /\ pc' = [pc EXCEPT ![c] = "idle"]
    /\ EndCall(c)
    /\ UNCHANGED <<facadeVars, clientVars, poolVars, queueVars, statVars, workerVars, cpc, apc,
                   histVars>>

(***************************************************************************)
(* WorkerThreadFunction (lines 369-393), one action per step of worker w.  *)
(***************************************************************************)
\* line 370: while (m_requestQueue->isRunning)
WorkerLoopTest(w) ==
    /\ wpc[w] = "top"
    /\ wpc' = [wpc EXCEPT ![w] = IF isRunning THEN "lock" ELSE "exited"]
    /\ UNCHANGED <<facadeVars, clientVars, poolVars, queueVars, statVars, callVars, wtask, cpc,
                   apc, histVars>>

\* the outcome of lines 375-381 for a worker that holds the mutex: the
\* predicate of condition.wait reads isRunning only when the queue is empty,
\* line 379 reads it when the predicate held
AfterPredicate(w) ==
    IF requests = <<>> /\ isRunning
    THEN /\ queueMutex' = w
         /\ wpc' = [wpc EXCEPT ![w] = "wait"]
    ELSE IF ~isRunning
    THEN /\ queueMutex' = 0
         /\ wpc' = [wpc EXCEPT ![w] = "exited"]
    ELSE /\ queueMutex' = w
         /\ wpc' = [wpc EXCEPT ![w] = "deq"]

\* lines 374-381: std::unique_lock lock(mutex), the first evaluation of the
\* predicate of condition.wait and, when it holds, if (!isRunning) break
WorkerLock(w) ==
    /\ wpc[w] = "lock"
    /\ queueMutex = 0
    /\ AfterPredicate(w)
    /\ UNCHANGED <<facadeVars, clientVars, poolVars, requests, isRunning, waiters, workerThreads,
                   statVars, callVars, wtask, cpc, apc, histVars>>

\* line 375: condition.wait releases the mutex and blocks
WorkerWait(w) ==
    /\ wpc[w] = "wait"
    /\ queueMutex' = 0
    /\ waiters' = waiters \cup {w}
    /\ wpc' = [wpc EXCEPT ![w] = "blocked"]
    /\ UNCHANGED <<facadeVars, clientVars, poolVars, requests, isRunning, workerThreads,
                   statVars, callVars, wtask, cpc, apc, histVars>>

\* lines 375-381: a notified worker takes the mutex again and re-evaluates
\* the predicate
WorkerWake(w) ==
    /\ wpc[w] = "blocked"
    /\ w \notin waiters
    /\ queueMutex = 0
    /\ AfterPredicate(w)
    /\ UNCHANGED <<facadeVars, clientVars, poolVars, requests, isRunning, waiters, workerThreads,
                   statVars, callVars, wtask, cpc, apc, histVars>>

\* lines 375-381: condition.wait may also return without a notification
WorkerSpuriousWake(w) ==
    /\ wpc[w] = "blocked"
    /\ w \in waiters
    /\ queueMutex = 0
    /\ waiters' = waiters \ {w}
    /\ AfterPredicate(w)
    /\ UNCHANGED <<facadeVars, clientVars, poolVars, requests, isRunning, workerThreads,
                   statVars, callVars, wtask, cpc, apc, histVars>>

\* mutant: the worker takes the newest task of the queue
WorkerDequeue_Newest(w) ==
    /\ wpc[w] = "deq"
    /\ queueMutex' = 0
    /\ IF requests # <<>>
       THEN /\ wtask' = [wtask EXCEPT ![w] = requests[Len(requests)]]
            /\ requests' = SubSeq(requests, 1, Len(requests) - 1)
            /\ tasks' = [tasks EXCEPT ![requests[Len(requests)]].state = "taken"]
            /\ wpc' = [wpc EXCEPT ![w] = "exec"]
       ELSE /\ wpc' = [wpc EXCEPT ![w] = "top"]
            /\ UNCHANGED <<wtask, requests, tasks>>
    /\ UNCHANGED <<facadeVars, clientVars, poolVars, isRunning, waiters, workerThreads, statVars,
                   callVars, cpc, apc, calls, doneCalls, doneOk, queuedAtStop,
                   runningAtStop>>

\* mutant: the lock outlives the scope of the dequeue
WorkerDequeue_KeepsLock(w) ==
    /\ wpc[w] = "deq"
    /\ IF requests # <<>>
       THEN /\ wtask' = [wtask EXCEPT ![w] = Head(requests)]
            /\ requests' = Tail(requests)
            /\ tasks' = [tasks EXCEPT ![Head(requests)].state = "taken"]
            /\ wpc' = [wpc EXCEPT ![w] = "exec"]
            /\ UNCHANGED queueMutex
       ELSE /\ wpc' = [wpc EXCEPT ![w] = "top"]
            /\ queueMutex' = 0
            /\ UNCHANGED <<wtask, requests, tasks>>
    /\ UNCHANGED <<facadeVars, clientVars, poolVars, isRunning, waiters, workerThreads, statVars,
                   callVars, cpc, apc, calls, doneCalls, doneOk, queuedAtStop,
                   runningAtStop>>

\* mutant: the worker copies the front of the queue and does not pop it
WorkerDequeue_NoPop(w) ==
    /\ wpc[w] = "deq"
    /\ queueMutex' = 0
    /\ IF requests # <<>>
       THEN /\ wtask' = [wtask EXCEPT ![w] = Head(requests)]
            /\ tasks' = [tasks EXCEPT ![Head(requests)].state = "taken"]
            /\ wpc' = [wpc EXCEPT ![w] = "exec"]
            /\ UNCHANGED requests
       ELSE /\ wpc' = [wpc EXCEPT ![w] = "top"]
            /\ UNCHANGED <<wtask, requests, tasks>>
    /\ UNCHANGED <<facadeVars, clientVars, poolVars, isRunning, waiters, workerThreads, statVars,
                   callVars, cpc, apc, calls, doneCalls, doneOk, queuedAtStop,
                   runningAtStop>>

\* lines 383-387: front(), pop(), end of the locked scope
WorkerDequeue(w) ==
    /\ wpc[w] = "deq"
    /\ queueMutex' = 0
    /\ IF requests # <<>>
       THEN /\ wtask' = [wtask EXCEPT ![w] = Head(requests)]
            /\ requests' = Tail(requests)
            /\ tasks' = [tasks EXCEPT ![Head(requests)].state = "taken"]
            /\ wpc' = [wpc EXCEPT ![w] = "exec"]
       ELSE /\ wpc' = [wpc EXCEPT ![w] = "top"]
            /\ UNCHANGED <<wtask, requests, tasks>>
    /\ UNCHANGED <<facadeVars, clientVars, poolVars, isRunning, waiters, workerThreads, statVars,
                   callVars, cpc, apc, calls, doneCalls, doneOk, queuedAtStop,
                   runningAtStop>>

\* lines 389-391 and 126-127: request() enters the closure, which calls
\* SendRequestWithRetry(config)
WorkerExec(w) ==
    /\ wpc[w] = "exec"
    /\ wpc' = [wpc EXCEPT ![w] = "running"]
    /\ tasks' = [tasks EXCEPT ![wtask[w]].state = "running"]
    /\ BeginRetryLoop(w, tasks[wtask[w]].cfg)
    /\ UNCHANGED <<facadeVars, clientVars, poolVars, queueVars, statVars, wtask, cpc, apc,
                   calls, doneCalls, doneOk, queuedAtStop, runningAtStop>>

\* lines 128-138: the callbacks of the closure; an exception of onSuccess is
\* caught at 134 and reported to onError
WorkerCallback(w) ==
    /\ wpc[w] = "running"
    /\ pc[w] = "ret"
    /\ LET t == tasks[wtask[w]] IN
         \E throws \in env.onSuccessThrows :
            tasks' = [tasks EXCEPT ![wtask[w]] =
                [t EXCEPT
                   !.state = "done",
                   !.onSuccessCalls = IF response[w].success THEN @ + 1 ELSE @,
                   !.onErrorCalls =
                       IF t.onError /\ (~response[w].success
                                          \/ (response[w].success /\ throws))
                       THEN @ + 1 ELSE @]]
    /\ wpc' = [wpc EXCEPT ![w] = "top"]
    /\ wtask' = [wtask EXCEPT ![w] = 0]
    /\ pc' = [pc EXCEPT ![w] = "idle"]
    /\ EndCall(w)
    /\ UNCHANGED <<facadeVars, clientVars, poolVars, queueVars, statVars, cpc, apc, calls,
                   doneCalls, doneOk, queuedAtStop, runningAtStop>>

\* lines 128-129, 134 and 389-391: onSuccess leaves by an exception whose
\* type is not derived from std::exception.  The handler at line 134 does
\* not match it and request() at line 390 is not inside a try block, so the
\* exception leaves WorkerThreadFunction and std::terminate is called: the
\* thread does not return to its loop
WorkerCallbackEscapes(w) ==
    /\ wpc[w] = "running"
    /\ pc[w] = "ret"
    /\ response[w].success
    /\ tasks' = [tasks EXCEPT ![wtask[w]].state = "faulted",
                              ![wtask[w]].onSuccessCalls = @ + 1]
    /\ wpc' = [wpc EXCEPT ![w] = "terminated"]
    /\ pc' = [pc EXCEPT ![w] = "idle"]
    /\ EndCall(w)
    /\ UNCHANGED <<facadeVars, clientVars, poolVars, queueVars, statVars, wtask, cpc, apc,
                   calls, doneCalls, doneOk, queuedAtStop, runningAtStop>>

\* the steps of a worker while no task is ever queued: lines 370-381
WorkerOnEmptyQueue(w) ==
    \/ WorkerLoopTest(w)
    \/ WorkerLock(w)
    \/ WorkerWait(w)
    \/ WorkerWake(w)
    \/ WorkerSpuriousWake(w)

WorkerThreadFunction(w) ==
    \/ WorkerLoopTest(w)
    \/ WorkerLock(w)
    \/ WorkerWait(w)
    \/ WorkerWake(w)
    \/ WorkerSpuriousWake(w)
    \/ WorkerDequeue(w)
    \/ WorkerExec(w)
    \/ WorkerCallback(w)

(***************************************************************************)
(* SendRequestAsync (lines 112-142) on the thread that submits tasks.      *)
(***************************************************************************)
NewTask(cfg, onError, state) ==
    [cfg |-> cfg, onError |-> onError, state |-> state, onSuccessCalls |-> 0,
     onErrorCalls |-> 0]

\* lines 115-120: the test of m_isInitialized
SendRequestAsync ==
    /\ apc = "idle"
    /\ Len(tasks) < MaxTasks
    /\ \E cfg \in env.configs, onError \in env.onErrorGiven :
          IF ~isInitialized
          THEN /\ tasks' = Append(tasks,
                              [NewTask(cfg, onError, "rejected") EXCEPT
                                 !.onErrorCalls = IF onError THEN 1 ELSE 0])
               /\ UNCHANGED apc
          ELSE /\ tasks' = Append(tasks, NewTask(cfg, onError, "created"))
               /\ apc' = "push"
    /\ UNCHANGED <<facadeVars, clientVars, poolVars, queueVars, statVars, callVars, workerVars,
                   cpc, calls, doneCalls, doneOk, queuedAtStop, runningAtStop>>

\* lines 123-140: push under the queue mutex
AsyncPush ==
    /\ apc = "push"
    /\ queueMutex = 0
    /\ requests' = Append(requests, Len(tasks))
    /\ tasks' = [tasks EXCEPT ![Len(tasks)].state = "queued"]
    /\ apc' = "notify"
    /\ UNCHANGED <<facadeVars, clientVars, poolVars, isRunning, queueMutex, waiters,
                   workerThreads, statVars, callVars, workerVars, cpc, calls,
                   doneCalls, doneOk, queuedAtStop, runningAtStop>>

\* mutant: the enqueue signals nobody
AsyncNotify_Skipped ==
    /\ apc = "notify"
    /\ apc' = "idle"
    /\ UNCHANGED <<facadeVars, clientVars, poolVars, requests, isRunning, queueMutex, waiters,
                   workerThreads, statVars, callVars, workerVars, cpc, histVars>>

\* line 141: condition.notify_one()
AsyncNotify ==
    /\ apc = "notify"
    /\ IF waiters = {}
       THEN UNCHANGED waiters
       ELSE \E w \in waiters : waiters' = waiters \ {w}
    /\ apc' = "idle"
    /\ UNCHANGED <<facadeVars, clientVars, poolVars, requests, isRunning, queueMutex,
                   workerThreads, statVars, callVars, workerVars, cpc, histVars>>

(***************************************************************************)
(* Initialize (lines 24-61) and Shutdown (lines 63-102) on one thread.     *)
(***************************************************************************)
RestingPcs == {"idle", "init_true", "init_false", "shutdown_returned"}

Min(S) == CHOOSE x \in S : \A y \in S : x <= y

\* mutant: the queue is set running before the session is known to exist
InitializeBegin_RunningFirst ==
    /\ cpc \in RestingPcs
    /\ IF isInitialized
       THEN /\ cpc' = "init_true"
            /\ UNCHANGED <<hSession, isRunning, initFailed>>
       ELSE \/ /\ hSession' = "null"
               /\ isRunning' = TRUE
               /\ cpc' = "init_false"
               /\ initFailed' = TRUE
            \/ /\ hSession' = "open"
               /\ isRunning' = TRUE
               /\ cpc' = "init_spawn"
               /\ UNCHANGED initFailed
    /\ UNCHANGED <<nonLifeVars, ipc, surplusThreads, isInitialized, isShuttingDown, maxRetries,
                   env, poolVars, requests, queueMutex, waiters, workerThreads, statVars,
                   callVars, workerVars, apc, histVars>>

\* lines 25-49: the test of m_isInitialized, WinHttpOpen, isRunning = true
InitializeBegin ==
    /\ cpc \in RestingPcs
    /\ IF isInitialized
       THEN /\ cpc' = "init_true"
            /\ UNCHANGED <<hSession, isRunning, initFailed>>
       ELSE \/ /\ hSession' = "null"
               /\ cpc' = "init_false"
               /\ initFailed' = TRUE
               /\ UNCHANGED isRunning
            \/ /\ hSession' = "open"
               /\ isRunning' = TRUE
               /\ cpc' = "init_spawn"
               /\ UNCHANGED initFailed
    /\ UNCHANGED <<nonLifeVars, ipc, surplusThreads, isInitialized, isShuttingDown, maxRetries,
                   env, poolVars, requests, queueMutex, waiters, workerThreads, statVars,
                   callVars, workerVars, apc, histVars>>

\* lines 50-52: one emplace_back, which starts a worker thread
InitializeSpawn ==
    /\ cpc = "init_spawn"
    /\ workerThreads # Workers
    /\ LET w == Min(Workers \ workerThreads) IN
          /\ workerThreads' = workerThreads \cup {w}
          /\ wpc' = [wpc EXCEPT ![w] = "top"]
    /\ UNCHANGED <<facadeVars, clientVars, poolVars, requests, isRunning, queueMutex, waiters,
                   statVars, callVars, wtask, cpc, apc, histVars>>

\* lines 54-55
InitializeDone ==
    /\ cpc = "init_spawn"
    /\ workerThreads = Workers
    /\ isInitialized' = TRUE
    /\ cpc' = "init_true"
    /\ UNCHANGED <<facadeVars, isShuttingDown, hSession, maxRetries, env, poolVars, queueVars,
                   statVars, callVars, workerVars, apc, histVars>>

(***************************************************************************)
(* Initialize (lines 24-61) called once more, on a second thread, while    *)
(* the first thread may be inside Initialize: the test at line 25 and the  *)
(* store at line 54 are separate operations on an atomic and no mutex is   *)
(* held.  The std::thread objects this call constructs run                 *)
(* WorkerThreadFunction like the others; they are counted, their steps     *)
(* are not modelled.                                                       *)
(***************************************************************************)
\* lines 25-49 on the second thread
ConcurrentInitializeBegin ==
    /\ ipc = "idle"
    /\ IF isInitialized
       THEN /\ ipc' = "init_true"
            /\ UNCHANGED <<hSession, isRunning, initFailed>>
       ELSE \/ /\ hSession' = "null"
               /\ ipc' = "init_false"
               /\ initFailed' = TRUE
               /\ UNCHANGED isRunning
            \/ /\ hSession' = "open"
               /\ isRunning' = TRUE
               /\ ipc' = "init_spawn"
               /\ UNCHANGED initFailed
    /\ UNCHANGED <<nonLifeVars, surplusThreads, isInitialized, isShuttingDown, maxRetries,
                   env, poolVars, requests, queueMutex, waiters, workerThreads, statVars,
                   callVars, workerVars, cpc, apc, histVars>>

\* lines 50-52 on the second thread: one emplace_back starts one more thread
ConcurrentInitializeSpawn ==
    /\ ipc = "init_spawn"
    /\ surplusThreads < NumWorkers
    /\ surplusThreads' = surplusThreads + 1
    /\ UNCHANGED <<nonLifeVars, initFailed, ipc, clientVars, poolVars, queueVars, statVars,
                   callVars, workerVars, cpc, apc, histVars>>

\* lines 54-55 on the second thread
ConcurrentInitializeDone ==
    /\ ipc = "init_spawn"
    /\ surplusThreads = NumWorkers
    /\ isInitialized' = TRUE
    /\ ipc' = "init_true"
    /\ UNCHANGED <<nonLifeVars, initFailed, surplusThreads, isShuttingDown, hSession,
                   maxRetries, env, poolVars, queueVars, statVars, callVars, workerVars,
                   cpc, apc, histVars>>

ConcurrentInitialize ==
    \/ ConcurrentInitializeBegin
    \/ ConcurrentInitializeSpawn
    \/ ConcurrentInitializeDone

\* lines 64-69: the test of m_isInitialized, m_isShuttingDown = true,
\* isRunning = false
ShutdownBegin ==
    /\ cpc \in RestingPcs
    /\ IF ~isInitialized
       THEN /\ cpc' = "shutdown_returned"
            /\ runningAtStop' = {}
            /\ queuedAtStop' = {}
            /\ UNCHANGED <<isShuttingDown, isRunning>>
       ELSE /\ isShuttingDown' = TRUE
            /\ isRunning' = FALSE
            /\ queuedAtStop' = {requests[i] : i \in 1 .. Len(requests)}
            /\ runningAtStop' = {wtask[w] : w \in {v \in Workers : wpc[v] = "running"}}
            /\ cpc' = "sd_notify"
    /\ UNCHANGED <<facadeVars, isInitialized, hSession, maxRetries, env, poolVars, requests,
                   queueMutex, waiters, workerThreads, statVars, callVars,
                   workerVars, apc, tasks, calls, doneCalls, doneOk>>

\* line 70: condition.notify_all()
ShutdownNotify ==
    /\ cpc = "sd_notify"
    /\ waiters' = {}
    /\ cpc' = "sd_join"
    /\ UNCHANGED <<facadeVars, clientVars, poolVars, requests, isRunning, queueMutex,
                   workerThreads, statVars, callVars, workerVars, apc, histVars>>

\* mutant: the threads are dropped without waiting for them to finish
ShutdownJoin_NoWait ==
    /\ cpc = "sd_join"
    /\ workerThreads # {}
    /\ workerThreads' = workerThreads \ {Min(workerThreads)}
    /\ UNCHANGED <<facadeVars, clientVars, poolVars, requests, isRunning, queueMutex, waiters,
                   statVars, callVars, workerVars, cpc, apc, histVars>>

\* lines 73-77: thread.join() of the next worker, in the order of m_workerThreads
ShutdownJoin ==
    /\ cpc = "sd_join"
    /\ workerThreads # {}
    /\ LET w == Min(workerThreads) IN
          /\ wpc[w] = "exited"
          /\ workerThreads' = workerThreads \ {w}
    /\ UNCHANGED <<facadeVars, clientVars, poolVars, requests, isRunning, queueMutex, waiters,
                   statVars, callVars, workerVars, cpc, apc, histVars>>

RECURSIVE CloseAll(_, _)
CloseAll(hs, q) == IF q = <<>> THEN hs ELSE CloseAll(CloseHandle(hs, Head(q)), Tail(q))

\* lines 78-88: m_workerThreads.clear(), then every pooled connection is
\* popped and closed under the pool mutex
ShutdownPool ==
    /\ cpc = "sd_join"
    /\ workerThreads = {}
    /\ handles' = CloseAll(handles, connections)
    /\ connections' = <<>>
    /\ cpc' = "sd_session"
    /\ UNCHANGED <<facadeVars, clientVars, currentConnections, maxConnections, queueVars,
                   statVars, callVars, workerVars, apc, histVars>>

\* lines 90-99: WinHttpCloseHandle(m_hSession); m_hSession = nullptr
ShutdownSession ==
    /\ cpc = "sd_session"
    /\ hSession' = "null"
    /\ cpc' = "sd_flag"
    /\ UNCHANGED <<facadeVars, isInitialized, isShuttingDown, maxRetries, env, poolVars,
                   queueVars, statVars, callVars, workerVars, apc, histVars>>

\* line 101: m_isInitialized = false; Shutdown returns
ShutdownDone ==
    /\ cpc = "sd_flag"
    /\ isInitialized' = FALSE
    /\ cpc' = "shutdown_returned"
    /\ UNCHANGED <<facadeVars, isShuttingDown, hSession, maxRetries, env, poolVars, queueVars,
                   statVars, callVars, workerVars, apc, histVars>>

Initialize == InitializeBegin \/ InitializeSpawn \/ InitializeDone

Shutdown ==
    \/ ShutdownBegin
    \/ ShutdownNotify
    \/ ShutdownJoin
    \/ ShutdownPool
    \/ ShutdownSession
    \/ ShutdownDone

(***************************************************************************)
(* SendBatchRequests (lines 144-169) on one calling thread, and the tasks  *)
(* it starts with std::async.                                              *)
(***************************************************************************)
NoFuture == [state |-> "running", value |-> DefaultResponse, log |-> <<>>]

\* lines 146-151: the test of m_isInitialized, the empty vector responses
SendBatchRequests ==
    /\ bpc = "idle"
    /\ batchCalls < MaxBatchCalls
    /\ batchCalls' = batchCalls + 1
    /\ \E n \in 0 .. MaxBatch, onComplete \in env.onCompleteGiven :
          \E cfgs \in [1 .. n -> env.configs] :
             IF ~isInitialized
             THEN UNCHANGED <<bpc, batchConfigs, batchOnComplete>>
             ELSE /\ bpc' = "spawn"
                  /\ batchConfigs' = cfgs
                  /\ batchOnComplete' = onComplete
    /\ UNCHANGED <<nonBatchVars, clientVars, poolVars, queueVars, statVars, callVars, workerVars,
                   cpc, apc, histVars, futures, responses, delivered,
                   completionOrder, batchReturned, onCompleteCalls>>

\* lines 155-159: one pass of the loop over configs; std::async starts the
\* task on a thread of its own, which enters SendRequestWithRetry
BatchSpawn ==
    /\ bpc = "spawn"
    /\ Len(futures) < Len(batchConfigs)
    /\ futures' = Append(futures, NoFuture)
    /\ BeginRetryLoop(BatchTask(Len(futures) + 1), batchConfigs[Len(futures) + 1])
    /\ UNCHANGED <<nonBatchVars, clientVars, poolVars, queueVars, statVars, workerVars, cpc, apc,
                   histVars, bpc, batchConfigs, batchOnComplete, responses,
                   delivered, completionOrder, batchCalls, batchReturned,
                   onCompleteCalls>>

\* line 155: the loop over configs ends
BatchSpawned ==
    /\ bpc = "spawn"
    /\ Len(futures) = Len(batchConfigs)
    /\ bpc' = "collect"
    /\ UNCHANGED <<nonBatchVars, clientVars, poolVars, queueVars, statVars, callVars, workerVars,
                   cpc, apc, histVars, batchConfigs, batchOnComplete, futures,
                   responses, delivered, completionOrder, batchCalls,
                   batchReturned, onCompleteCalls>>

\* line 157: the task returns the response of SendRequestWithRetry, which
\* makes its future ready
BatchTaskReturn(i) ==
    /\ i <= Len(futures)
    /\ pc[BatchTask(i)] = "ret"
    /\ futures' = [futures EXCEPT ![i] = [state |-> "ready",
                                          value |-> response[BatchTask(i)],
                                          log |-> attempts[BatchTask(i)]]]
    /\ completionOrder' = Append(completionOrder, i)
    /\ pc' = [pc EXCEPT ![BatchTask(i)] = "idle"]
    /\ EndCall(BatchTask(i))
    /\ UNCHANGED <<nonBatchVars, clientVars, poolVars, queueVars, statVars, workerVars, cpc, apc,
                   histVars, bpc, batchConfigs, batchOnComplete, responses,
                   delivered, batchCalls, batchReturned, onCompleteCalls>>

\* mutant: the results are collected as the tasks end
BatchCollect_AsCompleted ==
    /\ bpc = "collect"
    /\ Len(responses) < Len(completionOrder)
    /\ responses' = Append(responses, futures[completionOrder[Len(responses) + 1]].value)
    /\ UNCHANGED <<nonBatchVars, clientVars, poolVars, queueVars, statVars, callVars, workerVars,
                   cpc, apc, histVars, bpc, batchConfigs, batchOnComplete, futures,
                   delivered, completionOrder, batchCalls, batchReturned,
                   onCompleteCalls>>

\* lines 162-164: responses.push_back(future.get()) for the next future in
\* the order of the vector; get() blocks until the future is ready
BatchCollect ==
    /\ bpc = "collect"
    /\ Len(responses) < Len(futures)
    /\ futures[Len(responses) + 1].state = "ready"
    /\ responses' = Append(responses, futures[Len(responses) + 1].value)
    /\ UNCHANGED <<nonBatchVars, clientVars, poolVars, queueVars, statVars, callVars, workerVars,
                   cpc, apc, histVars, bpc, batchConfigs, batchOnComplete, futures,
                   delivered, completionOrder, batchCalls, batchReturned,
                   onCompleteCalls>>

\* mutant: the callback does not wait for the last future
BatchComplete_BeforeLast ==
    /\ bpc = "collect"
    /\ Len(responses) + 1 >= Len(futures)
    /\ IF batchOnComplete
       THEN /\ delivered' = responses
            /\ onCompleteCalls' = onCompleteCalls + 1
       ELSE UNCHANGED <<delivered, onCompleteCalls>>
    /\ bpc' = "called"
    /\ UNCHANGED <<nonBatchVars, clientVars, poolVars, queueVars, statVars, callVars, workerVars,
                   cpc, apc, histVars, batchConfigs, batchOnComplete, futures,
                   responses, completionOrder, batchCalls, batchReturned>>

\* lines 166-168: if (onComplete) onComplete(responses), after the loop
\* over the futures
BatchComplete ==
    /\ bpc = "collect"
    /\ Len(responses) = Len(futures)
    /\ IF batchOnComplete
       THEN /\ delivered' = responses
            /\ onCompleteCalls' = onCompleteCalls + 1
       ELSE UNCHANGED <<delivered, onCompleteCalls>>
    /\ bpc' = "called"
    /\ UNCHANGED <<nonBatchVars, clientVars, poolVars, queueVars, statVars, callVars, workerVars,
                   cpc, apc, histVars, batchConfigs, batchOnComplete, futures,
                   responses, completionOrder, batchCalls, batchReturned>>

\* line 169: SendBatchRequests returns, its locals go out of scope
BatchReturn ==
    /\ bpc = "called"
    /\ bpc' = "idle"
    /\ batchConfigs' = <<>>
    /\ batchOnComplete' = FALSE
    /\ futures' = <<>>
    /\ responses' = <<>>
    /\ delivered' = <<>>
    /\ completionOrder' = <<>>
    /\ batchReturned' = batchReturned + (IF batchOnComplete THEN 1 ELSE 0)
    /\ UNCHANGED <<nonBatchVars, clientVars, poolVars, queueVars, statVars, callVars, workerVars,
                   cpc, apc, histVars, batchCalls, onCompleteCalls>>

(***************************************************************************)
(* SendStreamRequest (lines 171-290).  Every call on an initialized client *)
(* detaches one thread; streams[s] holds the captured arguments and the    *)
(* locals of that thread.  events is the history of the callbacks the      *)
(* thread invoked, in order.  A callback that is an empty std::function is *)
(* skipped by the tests at 176, 193, ..., 270, 280, 285; onData and        *)
(* onComplete may leave by a std::exception where env.callbackThrows       *)
(* allows it.                                                              *)
(***************************************************************************)
StreamIds == 1..Len(streams)

\* lines 176-178, 193-195, ..., 285-287: if (onError) onError(...)
ReportError(st) ==
    IF st.onError THEN [st EXCEPT !.events = Append(@, "error")] ELSE st

\* an error exit of the thread: the report, then return
StreamFail(st) == [ReportError(st) EXCEPT !.pc = "end"]

\* lines 175-183: the test of m_isInitialized, then the thread is detached
SendStreamRequest ==
    /\ Len(streams) < MaxStreams
    /\ \E cfg \in env.configs, onData \in env.onDataGiven,
          onComplete \in env.onCompleteGiven, onError \in env.onErrorGiven :
          LET st == [pc |-> "crack", cfg |-> cfg, onData |-> onData,
                     onComplete |-> onComplete, onError |-> onError,
                     hConnect |-> NullHandle, hRequest |-> "none",
                     bytesRead |-> 0, chunks |-> 0, events |-> <<>>]
          IN  streams' = Append(streams,
                  IF isInitialized THEN st
                  ELSE [ReportError(st) EXCEPT !.pc = "rejected"])
    /\ UNCHANGED <<nonStreamVars, clientVars, poolVars, queueVars, statVars, callVars,
                   workerVars, cpc, apc, histVars>>

\* lines 186-197: WinHttpCrackUrl
StreamCrackUrl(s) ==
    /\ s \in StreamIds
    /\ streams[s].pc = "crack"
    /\ streams' = [streams EXCEPT ![s] =
                     IF @.cfg.urlOk THEN [@ EXCEPT !.pc = "connect"] ELSE StreamFail(@)]
    /\ UNCHANGED <<nonStreamVars, clientVars, poolVars, queueVars, statVars, callVars,
                   workerVars, cpc, apc, histVars>>

\* lines 200-212: WinHttpConnect on m_hSession, outside the connection pool
StreamConnect(s) ==
    /\ s \in StreamIds
    /\ streams[s].pc = "connect"
    /\ \/ /\ hSession = "open"
          /\ Len(handles) < MaxHandles
          /\ handles' = NewHandle(handles, streams[s].cfg.host)
          /\ streams' = [streams EXCEPT ![s].hConnect = Len(handles) + 1,
                                        ![s].pc = "open"]
       \/ /\ streams' = [streams EXCEPT ![s] = StreamFail(@)]
          /\ UNCHANGED handles
    /\ UNCHANGED <<nonStreamVars, clientVars, connections, currentConnections,
                   maxConnections, queueVars, statVars, callVars, workerVars, cpc, apc,
                   histVars>>

\* lines 215-231: WinHttpOpenRequest
StreamOpenRequest(s) ==
    /\ s \in StreamIds
    /\ streams[s].pc = "open"
    /\ \/ /\ streams' = [streams EXCEPT ![s].hRequest = "open", ![s].pc = "send"]
          /\ UNCHANGED handles
       \/ /\ handles' = CloseHandle(handles, streams[s].hConnect)
          /\ streams' = [streams EXCEPT ![s] = StreamFail(@)]
    /\ UNCHANGED <<nonStreamVars, clientVars, connections, currentConnections,
                   maxConnections, queueVars, statVars, callVars, workerVars, cpc, apc,
                   histVars>>

\* lines 240-260: WinHttpSendRequest, then WinHttpReceiveResponse; a failure
\* of either closes both handles and reports
StreamSendReceive(s) ==
    /\ s \in StreamIds
    /\ streams[s].pc \in {"send", "receive"}
    /\ \/ /\ streams' = [streams EXCEPT ![s].pc =
                           IF @ = "send" THEN "receive" ELSE "read"]
          /\ UNCHANGED handles
       \/ /\ handles' = CloseHandle(handles, streams[s].hConnect)
          /\ streams' = [streams EXCEPT ![s] = StreamFail([@ EXCEPT !.hRequest = "closed"])]
    /\ UNCHANGED <<nonStreamVars, clientVars, connections, currentConnections,
                   maxConnections, queueVars, statVars, callVars, workerVars, cpc, apc,
                   histVars>>

\* lines 266-275: one pass of the do-while loop.  A read that fails leaves
\* bytesRead as the previous pass set it, so the loop test repeats its
\* previous verdict
StreamReadData(s) ==
    /\ s \in StreamIds
    /\ streams[s].pc = "read"
    /\ \/ /\ streams[s].chunks < MaxChunks
          /\ \E throws \in env.callbackThrows :
                streams' = [streams EXCEPT ![s] =
                    [@ EXCEPT !.bytesRead = 1,
                              !.chunks = @ + 1,
                              !.events = IF streams[s].onData THEN Append(@, "data") ELSE @,
                              !.pc = IF streams[s].onData /\ throws
                                     THEN "catch" ELSE "read"]]
       \/ streams' = [streams EXCEPT ![s].bytesRead = 0, ![s].pc = "close"]
       \/ streams' = [streams EXCEPT ![s].pc =
                        IF streams[s].bytesRead > 0 THEN "read" ELSE "close"]
    /\ UNCHANGED <<nonStreamVars, clientVars, poolVars, queueVars, statVars, callVars,
                   workerVars, cpc, apc, histVars>>

\* mutant: the stream hands its connection to the idle pool
StreamClose_IntoPool(s) ==
    /\ s \in StreamIds
    /\ streams[s].pc = "close"
    /\ connections' = Append(connections, streams[s].hConnect)
    /\ currentConnections' = currentConnections + 1
    /\ streams' = [streams EXCEPT ![s].hRequest = "closed", ![s].pc = "complete"]
    /\ UNCHANGED <<nonStreamVars, clientVars, handles, maxConnections, queueVars, statVars,
                   callVars, workerVars, cpc, apc, histVars>>

\* lines 277-278: both handles are closed after the loop
StreamClose(s) ==
    /\ s \in StreamIds
    /\ streams[s].pc = "close"
    /\ handles' = CloseHandle(handles, streams[s].hConnect)
    /\ streams' = [streams EXCEPT ![s].hRequest = "closed", ![s].pc = "complete"]
    /\ UNCHANGED <<nonStreamVars, clientVars, connections, currentConnections,
                   maxConnections, queueVars, statVars, callVars, workerVars, cpc, apc,
                   histVars>>

\* lines 280-282: if (onComplete) onComplete(), still inside the try block
StreamComplete(s) ==
    /\ s \in StreamIds
    /\ streams[s].pc = "complete"
    /\ \E throws \in env.callbackThrows :
          streams' = [streams EXCEPT ![s] =
              [@ EXCEPT !.events = IF streams[s].onComplete
                                   THEN Append(@, "complete") ELSE @,
                        !.pc = IF streams[s].onComplete /\ throws
                               THEN "catch" ELSE "end"]]
    /\ UNCHANGED <<nonStreamVars, clientVars, poolVars, queueVars, statVars, callVars,
                   workerVars, cpc, apc, histVars>>

\* lines 284-288: the handler of std::exception reports through onError
StreamCatch(s) ==
    /\ s \in StreamIds
    /\ streams[s].pc = "catch"
    /\ streams' = [streams EXCEPT ![s] = StreamFail(@)]
    /\ UNCHANGED <<nonStreamVars, clientVars, poolVars, queueVars, statVars, callVars,
                   workerVars, cpc, apc, histVars>>

\* the body of the detached thread
StreamThread(s) ==
    \/ StreamCrackUrl(s)
    \/ StreamConnect(s)
    \/ StreamOpenRequest(s)
    \/ StreamSendReceive(s)
    \/ StreamReadData(s)
    \/ StreamClose(s)
    \/ StreamComplete(s)
    \/ StreamCatch(s)

(***************************************************************************)
(* The response cache.  winhttp_client.h declares CacheEntry, m_cache,     *)
(* m_defaultCacheTTL and the three member functions (lines 191-205); the   *)
(* functions have no definition in the sources and no caller, so their     *)
(* behaviour is taken from section 4.5 of the specification.  Time is      *)
(* counted in minutes.                                                     *)
(***************************************************************************)
CacheKeys == {"k1", "k2"}
CachedResponses ==
    {[DefaultResponse EXCEPT !.statusCode = c, !.statusText = "status",
                             !.success = IsSuccessStatusCode(c)] : c \in {200, 404}}
\* the time-to-live a put may ask for
CacheTTLs == {1, DefaultCacheTTL}

NoEntry == [key |-> "", response |-> DefaultResponse, timestamp |-> 0, ttl |-> 0]
NoLookup == [key |-> "", hit |-> FALSE, response |-> DefaultResponse, at |-> 0,
             put |-> NoEntry]

\* a CacheEntry whose timestamp is not that of its creation
CacheEntry_TimestampZero(key, resp, timestamp, ttl) ==
    [key |-> key, response |-> resp, timestamp |-> 0, ttl |-> ttl]

\* struct CacheEntry (h:192-197)
CacheEntry(key, resp, timestamp, ttl) ==
    [key |-> key, response |-> resp, timestamp |-> timestamp, ttl |-> ttl]

\* an entry is valid iff now - timestamp < ttl
IsFresh(entry, t) == entry # NoEntry /\ t - entry.timestamp < entry.ttl

\* put(key, response, ttl) inserts or replaces unconditionally
SetCachedResponse ==
    /\ \E key \in CacheKeys, resp \in CachedResponses, ttl \in CacheTTLs :
          /\ cache' = [cache EXCEPT ![key] = CacheEntry(key, resp, now, ttl)]
          /\ lastPut' = [lastPut EXCEPT ![key] = [key |-> key, response |-> resp,
                                                 timestamp |-> now, ttl |-> ttl]]
    /\ UNCHANGED <<now, lookup, nonCacheVars, clientVars, poolVars, queueVars, statVars,
                   callVars, workerVars, cpc, apc, histVars>>

\* get(key): the stored response iff an entry exists and is fresh, otherwise a
\* miss, on which the stale entry may be evicted
GetCachedResponse ==
    /\ \E key \in CacheKeys :
          IF IsFresh(cache[key], now)
          THEN /\ lookup' = [key |-> key, hit |-> TRUE,
                             response |-> cache[key].response, at |-> now,
                             put |-> lastPut[key]]
               /\ UNCHANGED cache
          ELSE /\ lookup' = [key |-> key, hit |-> FALSE,
                             response |-> DefaultResponse, at |-> now,
                             put |-> lastPut[key]]
               /\ \/ cache' = [cache EXCEPT ![key] = NoEntry]
                  \/ UNCHANGED cache
    /\ UNCHANGED <<now, lastPut, nonCacheVars, clientVars, poolVars, queueVars, statVars,
                   callVars, workerVars, cpc, apc, histVars>>

\* the periodic purge of the stale entries
CleanupExpiredCache ==
    /\ cache' = [k \in CacheKeys |-> IF IsFresh(cache[k], now) THEN cache[k] ELSE NoEntry]
    /\ UNCHANGED <<now, lastPut, lookup, nonCacheVars, clientVars, poolVars, queueVars,
                   statVars, callVars, workerVars, cpc, apc, histVars>>

\* a minute passes
Tick ==
    /\ now < MaxClock
    /\ now' = now + 1
    /\ UNCHANGED <<cache, lastPut, lookup, nonCacheVars, clientVars, poolVars, queueVars,
                   statVars, callVars, workerVars, cpc, apc, histVars>>

(***************************************************************************)
(* GetPerformanceMetrics (lines 292-311) and ResetPerformanceMetrics       *)
(* (lines 313-320), each as one step.  Rates are exact fractions.          *)
(***************************************************************************)
\* no PerformanceMetrics has been returned yet
NoMetrics ==
    [valid |-> FALSE, totalRequests |-> 0, successfulRequests |-> 0,
     failedRequests |-> 0, totalBytes |-> 0, averageResponseTime |-> <<0, 1>>,
     successRate |-> <<0, 1>>]

\* what a double member of the local `PerformanceMetrics metrics;` (line 293)
\* can hold when no statement assigned it: the struct has no initializers
\* (h:149-157), so the value is whatever the stack held
UnsetDoubles == {<<0, 1>>, <<1, 1>>}

\* lines 293-310; successRate is assigned only under the test at line 306
GetPerformanceMetrics ==
    /\ \E unset \in UnsetDoubles :
          metrics' =
             [valid |-> TRUE,
              totalRequests |-> totalRequests,
              successfulRequests |-> successfulRequests,
              failedRequests |-> failedRequests,
              totalBytes |-> totalBytes,
              averageResponseTime |-> averageResponseTime,
              successRate |-> IF totalRequests > 0
                              THEN Frac(successfulRequests * 100, totalRequests)
                              ELSE unset]
    /\ UNCHANGED <<samples, nonMetricsVars, clientVars, poolVars, queueVars, statVars,
                   callVars, workerVars, cpc, apc, histVars>>

\* lines 314-319
ResetPerformanceMetrics ==
    /\ totalRequests' = 0
    /\ successfulRequests' = 0
    /\ failedRequests' = 0
    /\ totalBytes' = 0
    /\ averageResponseTime' = <<0, 1>>
    /\ samples' = <<>>
    /\ UNCHANGED <<metrics, nonMetricsVars, clientVars, poolVars, queueVars, callVars,
                   workerVars, cpc, apc, histVars>>

(***************************************************************************)
(* Initial states.                                                         *)
(***************************************************************************)
\* what the constructor sets (lines 11-18), with the configuration
InitCommon ==
    /\ isShuttingDown = FALSE
    /\ bpc = "idle"
    /\ batchConfigs = <<>>
    /\ batchOnComplete = FALSE
    /\ futures = <<>>
    /\ responses = <<>>
    /\ delivered = <<>>
    /\ completionOrder = <<>>
    /\ batchCalls = 0
    /\ batchReturned = 0
    /\ onCompleteCalls = 0
    /\ streams = <<>>
    /\ cache = [k \in CacheKeys |-> NoEntry]
    /\ now = 0
    /\ lastPut = [k \in CacheKeys |-> NoEntry]
    /\ lookup = NoLookup
    /\ metrics = NoMetrics
    /\ initFailed = FALSE
    /\ ipc = "idle"
    /\ surplusThreads = 0
    /\ samples = <<>>
    /\ connections = <<>>
    /\ currentConnections = 0
    /\ maxConnections \in 1 .. MaxPoolCap
    /\ maxRetries \in 0 .. MaxRetriesCfg
    /\ requests = <<>>
    /\ queueMutex = 0
    /\ totalRequests = 0
    /\ successfulRequests = 0
    /\ failedRequests = 0
    /\ totalBytes = 0
    /\ averageResponseTime = <<0, 1>>
    /\ handles = <<>>
    /\ pc = [e \in Executors |-> "idle"]
    /\ config = [e \in Executors |-> NoConfig]
    /\ retryCount = [e \in Executors |-> 0]
    /\ response = [e \in Executors |-> DefaultResponse]
    /\ hConnect = [e \in Executors |-> NullHandle]
    /\ attempts = [e \in Executors |-> <<>>]
    /\ sleeps = [e \in Executors |-> <<>>]
    /\ statTmp = [e \in Executors |-> NoStatTmp]
    /\ wtask = [w \in Workers |-> 0]
    /\ cpc = "idle"
    /\ apc = "idle"
    /\ tasks = <<>>
    /\ calls = 0
    /\ doneCalls = 0
    /\ doneOk = 0
    /\ queuedAtStop = {}
    /\ runningAtStop = {}


\* the client as constructed: not initialized, no worker thread
InitConstructed ==
    /\ InitCommon
    /\ isInitialized = FALSE
    /\ hSession = "null"
    /\ isRunning = FALSE
    /\ waiters = {}
    /\ workerThreads = {}
    /\ wpc = [w \in Workers |-> "none"]

\* the client after Initialize returned true (lines 31-55) and every worker
\* reached the wait on the empty queue (line 375)
InitRunning ==
    /\ InitCommon
    /\ isInitialized = TRUE
    /\ hSession = "open"
    /\ isRunning = TRUE
    /\ waiters = Workers
    /\ workerThreads = Workers
    /\ wpc = [w \in Workers |-> "blocked"]

(***************************************************************************)
(* SpecRetry: an initialized client on which one thread makes synchronous  *)
(* SendRequest calls to one host, one after the other; the workers stay    *)
(* blocked on the empty queue.  The transport answers in every way.        *)
(***************************************************************************)
RetryCaller == NumWorkers + 1

\* requests to one host, every outcome of a round trip
RetryEnv ==
    [configs |-> [host : {"hostA"}, urlOk : BOOLEAN],
     outcomes |-> RoundTripOutcomes,
     bodySizes |-> BodySizes,
     latencies |-> Latencies,
     onErrorGiven |-> BOOLEAN,
     onSuccessThrows |-> BOOLEAN]

NextRetry ==
    \/ SendRequest(RetryCaller)
    \/ SendRequestWithRetry(RetryCaller)
    \/ SendRequestReturn(RetryCaller)

InitRetry == InitRunning /\ maxConnections = MaxPoolCap /\ env = RetryEnv

SpecRetry == InitRetry /\ [][NextRetry]_vars


(***************************************************************************)
(* SpecQueue: an initialized client whose workers wait on the empty queue, *)
(* a thread that submits tasks with SendRequestAsync, the workers that     *)
(* execute them, and a thread that calls Shutdown.  Every submitted URL    *)
(* fails to parse, so a task ends at line 411 and reports to onError.      *)
(***************************************************************************)
QueueEnv ==
    [configs |-> [host : {"hostA"}, urlOk : {FALSE}],
     outcomes |-> [kind : {"status"}, status : {200}],
     bodySizes |-> {0},
     latencies |-> {100},
     onErrorGiven |-> BOOLEAN,
     onSuccessThrows |-> {FALSE}]

InitQueue ==
    /\ InitRunning
    /\ maxConnections = MaxPoolCap
    /\ maxRetries = 0
    /\ env = QueueEnv

NextQueue ==
    \/ Shutdown
    \/ SendRequestAsync
    \/ AsyncPush
    \/ AsyncNotify
    \/ \E w \in Workers : WorkerThreadFunction(w)
    \/ \E w \in Workers : SendRequestWithBadUrl(w)

SpecQueue == InitQueue /\ [][NextQueue]_vars

\* the steps of worker w that the scheduler runs whenever they stay possible;
\* a return of condition.wait without a notification is not among them
WorkerProgress(w) ==
    \/ WorkerLoopTest(w)
    \/ WorkerLock(w)
    \/ WorkerWait(w)
    \/ WorkerWake(w)
    \/ WorkerDequeue(w)
    \/ WorkerExec(w)
    \/ WorkerCallback(w)
    \/ SendRequestWithBadUrl(w)

\* SpecQueue with every thread scheduled: Shutdown, the workers and a started
\* SendRequestAsync go on whenever they can; every running task terminates
SpecQueueFair ==
    /\ SpecQueue
    /\ WF_vars(Shutdown)
    /\ WF_vars(AsyncPush \/ AsyncNotify)
    /\ \A w \in Workers : WF_vars(WorkerProgress(w))

(***************************************************************************)
(* SpecRestart: SpecQueue with a controlling thread that also calls        *)
(* Initialize again after Shutdown.                                        *)
(***************************************************************************)
NextRestart ==
    \/ Initialize
    \/ Shutdown
    \/ SendRequestAsync
    \/ AsyncPush
    \/ AsyncNotify
    \/ \E w \in Workers : WorkerThreadFunction(w)
    \/ \E w \in Workers : SendRequestWithBadUrl(w)

SpecRestart == InitQueue /\ [][NextRestart]_vars

(***************************************************************************)
(* SpecDispatch: SpecQueue without the thread that calls Shutdown: the     *)
(* client stays initialized while tasks are submitted and executed.        *)
(* SpecDispatchFair schedules every thread.                                *)
(***************************************************************************)
NextDispatch ==
    \/ SendRequestAsync
    \/ AsyncPush
    \/ AsyncNotify
    \/ \E w \in Workers : WorkerThreadFunction(w)
    \/ \E w \in Workers : SendRequestWithBadUrl(w)

SpecDispatch == InitQueue /\ [][NextDispatch]_vars

SpecDispatchFair ==
    /\ SpecDispatch
    /\ WF_vars(AsyncPush \/ AsyncNotify)
    /\ \A w \in Workers : WF_vars(WorkerProgress(w))

(***************************************************************************)
(* SpecPool: an initialized client on which NumCallers threads make        *)
(* synchronous SendRequest calls to two hosts.  No retry is configured;    *)
(* a round trip is answered 200, fails to create its request or raises an  *)
(* exception.  The workers stay blocked on the empty queue.                *)
(***************************************************************************)
PoolEnv ==
    [configs |-> [host : Hosts, urlOk : {TRUE}],
     outcomes |-> [kind : {"status"}, status : {200}]
                     \cup [kind : {"reqfail", "exception"}, status : {ZeroStatus}],
     bodySizes |-> {0},
     latencies |-> {100},
     onErrorGiven |-> {FALSE},
     onSuccessThrows |-> {FALSE}]

InitPool ==
    /\ InitRunning
    /\ maxRetries = 0
    /\ env = PoolEnv

NextPool ==
    \E c \in Callers :
       \/ SendRequest(c)
       \/ SendRequestWithoutRetry(c)
       \/ SendRequestReturn(c)

SpecPool == InitPool /\ [][NextPool]_vars

(***************************************************************************)
(* SpecContention: an initialized client on which NumCallers threads make  *)
(* synchronous SendRequest calls to one host with one retry configured;    *)
(* the transport answers 200 or 500, so a request that retries finds the   *)
(* idle pool as the other requests left it.                                *)
(***************************************************************************)
ContentionEnv ==
    [configs |-> [host : {"hostA"}, urlOk : {TRUE}],
     outcomes |-> [kind : {"status"}, status : {200, 500}],
     bodySizes |-> {0},
     latencies |-> {100},
     onErrorGiven |-> {FALSE},
     onSuccessThrows |-> {FALSE}]

InitContention ==
    /\ InitRunning
    /\ maxConnections = MaxPoolCap
    /\ maxRetries = 1
    /\ env = ContentionEnv

NextContention ==
    \E c \in Callers :
       \/ SendRequest(c)
       \/ SendRequestWithRetryThenStats(c)
       \/ SendRequestReturn(c)

SpecContention == InitContention /\ [][NextContention]_vars

(***************************************************************************)
(* SpecBatch: one thread that calls SendBatchRequests with lists of up to  *)
(* MaxBatch requests, on a client that is initialized or not; the tasks    *)
(* run SendRequestWithRetry in parallel.  No retry is configured; a URL    *)
(* fails to parse, no connection is obtained, or the answer is 200.        *)
(***************************************************************************)
BatchEnv ==
    [configs |-> [host : {"hostA"}, urlOk : BOOLEAN],
     outcomes |-> [kind : {"status"}, status : {200}],
     bodySizes |-> {0},
     latencies |-> {100},
     onErrorGiven |-> {FALSE},
     onSuccessThrows |-> {FALSE},
     onCompleteGiven |-> BOOLEAN]

InitBatch ==
    /\ InitRunning \/ InitConstructed
    /\ maxConnections = MaxPoolCap
    /\ maxRetries = 0
    /\ env = BatchEnv

NextBatch ==
    \/ SendBatchRequests
    \/ BatchSpawn
    \/ BatchSpawned
    \/ \E b \in BatchTasks : SendRequestWithoutRetry(b)
    \/ \E i \in 1 .. MaxBatch : BatchTaskReturn(i)
    \/ BatchCollect
    \/ BatchComplete
    \/ BatchReturn

SpecBatch == InitBatch /\ [][NextBatch]_vars

(***************************************************************************)
(* SpecStream: up to MaxStreams calls of SendStreamRequest on a client     *)
(* that is initialized or not.  The URL parses or not, every WinHTTP call  *)
(* of the thread may fail, the response has up to MaxChunks non-empty      *)
(* reads; each callback is supplied or empty, and onData and onComplete    *)
(* return or throw a std::exception.                                       *)
(***************************************************************************)
StreamEnv ==
    [configs |-> [host : {"hostA"}, urlOk : BOOLEAN],
     outcomes |-> [kind : {"status"}, status : {200}],
     bodySizes |-> {0},
     latencies |-> {100},
     onErrorGiven |-> BOOLEAN,
     onSuccessThrows |-> {FALSE},
     onCompleteGiven |-> BOOLEAN,
     onDataGiven |-> BOOLEAN,
     callbackThrows |-> BOOLEAN]

InitStream ==
    /\ InitRunning \/ InitConstructed
    /\ maxConnections = MaxPoolCap
    /\ maxRetries = 0
    /\ env = StreamEnv

NextStream ==
    \/ SendStreamRequest
    \/ \E s \in 1 .. MaxStreams : StreamThread(s)

SpecStream == InitStream /\ [][NextStream]_vars

(***************************************************************************)
(* SpecAsync: an initialized client whose workers execute the tasks that a *)
(* thread submits with SendRequestAsync.  No retry is configured; a        *)
(* request is answered 200 or obtains no connection; onError is supplied   *)
(* or left at its default, onSuccess returns or throws a std::exception.   *)
(***************************************************************************)
AsyncEnv ==
    [configs |-> [host : {"hostA"}, urlOk : {TRUE}],
     outcomes |-> [kind : {"status"}, status : {200}],
     bodySizes |-> {0},
     latencies |-> {100},
     onErrorGiven |-> BOOLEAN,
     onSuccessThrows |-> BOOLEAN]

InitAsync ==
    /\ InitRunning
    /\ maxConnections = MaxPoolCap
    /\ maxRetries = 0
    /\ env = AsyncEnv

NextAsync ==
    \/ SendRequestAsync
    \/ AsyncPush
    \/ AsyncNotify
    \/ \E w \in Workers : WorkerThreadFunction(w)
    \/ \E w \in Workers : SendRequestWithoutRetry(w)

SpecAsync == InitAsync /\ [][NextAsync]_vars

(***************************************************************************)
(* SpecFault: SpecAsync with every task given onError, and with success    *)
(* callbacks that return, throw a std::exception or throw an object of     *)
(* another type.                                                           *)
(***************************************************************************)
FaultEnv ==
    [configs |-> [host : {"hostA"}, urlOk : {TRUE}],
     outcomes |-> [kind : {"status"}, status : {200}]
                     \cup [kind : {"exception"}, status : {ZeroStatus}],
     bodySizes |-> {0},
     latencies |-> {100},
     onErrorGiven |-> {TRUE},
     onSuccessThrows |-> BOOLEAN]

InitFault ==
    /\ InitRunning
    /\ maxConnections = MaxPoolCap
    /\ maxRetries = 0
    /\ env = FaultEnv

NextFault ==
    \/ SendRequestAsync
    \/ AsyncPush
    \/ AsyncNotify
    \/ \E w \in Workers : WorkerThreadFunction(w)
    \/ \E w \in Workers : WorkerCallbackEscapes(w)
    \/ \E w \in Workers : SendRequestWithoutRetry(w)

SpecFault == InitFault /\ [][NextFault]_vars

(***************************************************************************)
(* SpecCache: puts, gets and purges on the response cache of an            *)
(* initialized client while the clock runs for MaxClock minutes.           *)
(***************************************************************************)
InitCache ==
    /\ InitRunning
    /\ maxConnections = MaxPoolCap
    /\ maxRetries = 0
    /\ env = AsyncEnv

NextCache ==
    \/ SetCachedResponse
    \/ GetCachedResponse
    \/ CleanupExpiredCache
    \/ Tick

SpecCache == InitCache /\ [][NextCache]_vars

(***************************************************************************)
(* SpecMetrics: one thread makes synchronous requests, answered 200 or     *)
(* 404, while other threads read and reset the performance metrics.  No    *)
(* retry is configured.                                                    *)
(***************************************************************************)
MetricsEnv ==
    [configs |-> [host : {"hostA"}, urlOk : {TRUE}],
     outcomes |-> [kind : {"status"}, status : {200, 404}],
     bodySizes |-> {0},
     latencies |-> Latencies,
     onErrorGiven |-> {FALSE},
     onSuccessThrows |-> {FALSE}]

InitMetrics ==
    /\ InitRunning
    /\ maxConnections = MaxPoolCap
    /\ maxRetries = 0
    /\ env = MetricsEnv

NextMetrics ==
    \/ SendRequest(RetryCaller)
    \/ SendRequestWithoutRetry(RetryCaller)
    \/ SendRequestReturn(RetryCaller)
    \/ GetPerformanceMetrics
    \/ ResetPerformanceMetrics

SpecMetrics == InitMetrics /\ [][NextMetrics]_vars

(***************************************************************************)
(* SpecLifecycle: one thread calls Initialize and Shutdown in any order,   *)
(* WinHttpOpen failing or not, and the workers it starts wait on the empty *)
(* queue and exit.  Other threads call SendRequest, SendRequestAsync,      *)
(* SendBatchRequests and SendStreamRequest with every callback supplied,   *)
(* in this specification only at moments at which m_isInitialized is       *)
(* false.                                                                  *)
(***************************************************************************)
LifecycleEnv ==
    [configs |-> [host : {"hostA"}, urlOk : {TRUE}],
     outcomes |-> [kind : {"status"}, status : {200}],
     bodySizes |-> {0},
     latencies |-> {100},
     onErrorGiven |-> {TRUE},
     onSuccessThrows |-> {FALSE},
     onCompleteGiven |-> {TRUE},
     onDataGiven |-> {TRUE},
     callbackThrows |-> {FALSE}]

InitLifecycle ==
    /\ InitConstructed
    /\ maxConnections = MaxPoolCap
    /\ maxRetries = 0
    /\ env = LifecycleEnv

NextLifecycle ==
    \/ Initialize
    \/ Shutdown
    \/ \E w \in Workers : WorkerOnEmptyQueue(w)
    \/ ~isInitialized /\ SendRequest(RetryCaller)
    \/ SendRequestReturn(RetryCaller)
    \/ ~isInitialized /\ SendRequestAsync
    \/ ~isInitialized /\ SendBatchRequests
    \/ ~isInitialized /\ SendStreamRequest

SpecLifecycle == InitLifecycle /\ [][NextLifecycle]_vars

(***************************************************************************)
(* SpecInitRace: two threads call Initialize on a constructed client, the  *)
(* first as often as it likes, the second once; the workers the first      *)
(* call starts run to their wait on the empty queue.                       *)
(***************************************************************************)
NextInitRace ==
    \/ Initialize
    \/ ConcurrentInitialize
    \/ \E w \in Workers :
          \/ WorkerLoopTest(w)
          \/ WorkerLock(w)
          \/ WorkerWait(w)
          \/ WorkerSpuriousWake(w)

SpecInitRace == InitLifecycle /\ [][NextInitRace]_vars

(***************************************************************************)
(* SpecTeardown: an initialized client on which NumCallers threads make    *)
(* synchronous SendRequest calls to one host, every round trip answered    *)
(* 200, while another thread calls Shutdown.  No task is queued: the       *)
(* workers wait on the empty queue until Shutdown wakes them.              *)
(***************************************************************************)
TeardownEnv ==
    [configs |-> [host : {"hostA"}, urlOk : {TRUE}],
     outcomes |-> [kind : {"status"}, status : {200}],
     bodySizes |-> {0},
     latencies |-> {100},
     onErrorGiven |-> {FALSE},
     onSuccessThrows |-> {FALSE}]

InitTeardown ==
    /\ InitRunning
    /\ maxConnections = MaxPoolCap
    /\ maxRetries = 0
    /\ env = TeardownEnv

NextTeardown ==
    \/ Shutdown
    \/ \E w \in Workers :
          \/ WorkerWait(w)
          \/ WorkerWake(w)
          \/ WorkerSpuriousWake(w)
    \/ \E c \in Callers :
          \/ SendRequest(c)
          \/ SendRequestWithoutRetry(c)
          \/ SendRequestReturn(c)

SpecTeardown == InitTeardown /\ [][NextTeardown]_vars

(***************************************************************************)
(* SpecStats: NumCallers threads make synchronous requests at the same     *)
(* time on an initialized client.  Every URL fails to parse, so a call     *)
(* goes from line 411 to UpdatePerformanceStats, whose operations on       *)
(* m_stats interleave with those of the other threads.                     *)
(***************************************************************************)
StatsEnv ==
    [configs |-> [host : {"hostA"}, urlOk : {FALSE}],
     outcomes |-> [kind : {"status"}, status : {200}],
     bodySizes |-> {0},
     latencies |-> Latencies,
     onErrorGiven |-> {FALSE},
     onSuccessThrows |-> {FALSE}]

InitStats ==
    /\ InitRunning
    /\ maxConnections = MaxPoolCap
    /\ maxRetries = 0
    /\ env = StatsEnv

NextStats ==
    \E c \in Callers :
       \/ SendRequest(c)
       \/ LoopHead(c)
       \/ StatTotal(c)
       \/ StatOutcome(c)
       \/ StatBytes(c)
       \/ StatLoadAvg(c)
       \/ StatLoadCount(c)
       \/ StatStore(c)
       \/ SendRequestReturn(c)

SpecStats == InitStats /\ [][NextStats]_vars

(***************************************************************************)
(* SpecStatsReset: SpecStats with a further thread that calls              *)
(* ResetPerformanceMetrics at any moment.                                  *)
(***************************************************************************)
NextStatsReset ==
    \/ NextStats
    \/ ResetPerformanceMetrics

SpecStatsReset == InitStats /\ [][NextStatsReset]_vars

(***************************************************************************)
(* Properties of the retry loop (SpecRetry).                               *)
(***************************************************************************)
IsStatus(o) == o.kind = "status"
IsRetryableAnswer(o) == IsStatus(o) /\ o.status \in RetryableStatusCodes
IsSuccessAnswer(o) == IsStatus(o) /\ o.status >= 200 /\ o.status < 300
IsFinalFailureAnswer(o) ==
    IsStatus(o) /\ ~IsSuccessAnswer(o) /\ o.status \notin RetryableStatusCodes

\* every pass of the loop so far was answered with a retryable status code
AllRetryable(log) == \A i \in 1 .. Len(log) : IsRetryableAnswer(log[i])

\* SendRequestWithRetry has returned its response on thread e
Returned(e) == pc[e] = "ret"

\* C1: when the transport answers every attempt of a call with a retryable
\* status code, the call that returns has made exactly maxRetries + 1
\* attempts and returns success = false with the status code of the last
\* attempt.
C1_RetriesExhausted ==
    \A e \in Executors :
        (Returned(e) /\ AllRetryable(attempts[e])) =>
            /\ Len(attempts[e]) = maxRetries + 1
            /\ response[e].success = FALSE
            /\ response[e].statusCode = Last(attempts[e]).status

C1_Witness ==
    \E e \in Executors :
        /\ Returned(e)
        /\ maxRetries = 2
        /\ Len(attempts[e]) = 3
        /\ AllRetryable(attempts[e])
        /\ attempts[e][1].status = 500
        /\ attempts[e][3].status = 503
        /\ response[e].statusCode = 503

\* C2: the retry loop stops at the first successful response: a 2xx answer
\* is never followed by another attempt, and a call whose attempts 1..j-1
\* were answered with retryable codes and attempt j with a 2xx code returns
\* after exactly j <= maxRetries + 1 attempts with success = true and that
\* code (500, 500, 200 with maxRetries = 2 gives 3 attempts and status 200).
C2_StopsAtFirstSuccess ==
    \A e \in Executors :
        /\ \A i \in 1 .. Len(attempts[e]) :
              IsSuccessAnswer(attempts[e][i]) => i = Len(attempts[e])
        /\ (/\ Returned(e)
            /\ attempts[e] # <<>>
            /\ IsSuccessAnswer(Last(attempts[e]))
            /\ AllRetryable(SubSeq(attempts[e], 1, Len(attempts[e]) - 1)))
           => /\ response[e].success = TRUE
              /\ response[e].statusCode = Last(attempts[e]).status
              /\ Len(attempts[e]) <= maxRetries + 1
              /\ Len(sleeps[e]) = Len(attempts[e]) - 1

C2_Witness ==
    \E e \in Executors :
        /\ Returned(e)
        /\ maxRetries = 2
        /\ Len(attempts[e]) = 3
        /\ attempts[e][1] = [kind |-> "status", status |-> 500]
        /\ attempts[e][2] = [kind |-> "status", status |-> 500]
        /\ attempts[e][3] = [kind |-> "status", status |-> 200]
        /\ response[e].success
        /\ response[e].statusCode = 200

\* threads between the increment of totalRequests and the return of the call
PastStatTotal(e) ==
    pc[e] \in {"stat_outcome", "stat_bytes", "stat_loadavg", "stat_loadn", "stat_store"}
\* threads between the increment of successful/failedRequests and the return
PastStatOutcome(e) ==
    pc[e] \in {"stat_bytes", "stat_loadavg", "stat_loadn", "stat_store"}

\* C9: every call of SendRequestWithRetry that terminates has added exactly
\* 1 to totalRequests and exactly 1 to one of successfulRequests (when its
\* final response has success = true) and failedRequests (otherwise),
\* whatever the number of attempts it made: the counters equal the numbers
\* of calls that have returned, plus the calls inside the update.
C9_OneStatUpdatePerCall ==
    /\ totalRequests =
          doneCalls + Cardinality({e \in Executors : PastStatTotal(e)})
    /\ successfulRequests =
          doneOk + Cardinality({e \in Executors :
                                  PastStatOutcome(e) /\ response[e].success})
    /\ failedRequests =
          (doneCalls - doneOk)
             + Cardinality({e \in Executors :
                              PastStatOutcome(e) /\ ~response[e].success})

C9_Witness ==
    \E e \in Executors :
        /\ Returned(e)
        /\ Len(attempts[e]) = 3
        /\ response[e].success
        /\ doneCalls = 2
        /\ totalRequests = 2
        /\ successfulRequests = 1
        /\ failedRequests = 1

\* C10: an attempt answered with a non-2xx status code outside the
\* retryable set is the last attempt of its call: no backoff sleep and no
\* attempt follows it, and the call returns that response, success = false
\* with the received status code.
C10_NonRetryableStatusIsFinal ==
    \A e \in Executors :
        \A i \in 1 .. Len(attempts[e]) :
            IsFinalFailureAnswer(attempts[e][i]) =>
                /\ i = Len(attempts[e])
                /\ Len(sleeps[e]) = i - 1
                /\ pc[e] \notin {"loop", "acquire", "roundtrip", "sleep"}
                /\ response[e].success = FALSE
                /\ response[e].statusCode = attempts[e][i].status

C10_Witness ==
    \E e \in Executors :
        /\ Returned(e)
        /\ maxRetries = 2
        /\ Len(attempts[e]) = 2
        /\ attempts[e][1].status = 503
        /\ attempts[e][2] = [kind |-> "status", status |-> 404]
        /\ retryCount[e] = 1
        /\ response[e].statusCode = 404

(***************************************************************************)
(* Properties of the connection pool (SpecPool).                           *)
(***************************************************************************)
\* the requests that hold connection h
Holders(h) == {e \in Executors : hConnect[e] = h}

\* the places of the idle queue that hold connection h
PoolSlots(h) == {i \in 1 .. Len(connections) : connections[i] = h}

\* C3: the idle queue never holds more than maxConnections connections, and
\* a ReturnConnection that finds the idle queue at capacity leaves the queue
\* as it is and closes the connection it was given.
C3_PoolCapacity ==
    [][/\ Len(connections') <= maxConnections'
       /\ \A e \in Executors :
             (/\ pc[e] = "return"
              /\ pc'[e] # "return"
              /\ hConnect[e] # NullHandle
              /\ Len(connections) >= maxConnections)
             => /\ connections' = connections
                /\ ~handles'[hConnect[e]].open]_vars

\* a connection was closed by a release and the idle queue is at capacity
C3_Witness ==
    /\ Len(connections) = maxConnections
    /\ \E h \in 1 .. Len(handles) : ~handles[h].open /\ handles[h].closes = 1

\* C4: every open connection is held by the idle queue or by exactly one
\* request in flight: it has exactly one holder, which is one place of the
\* idle queue or one request.
C4_SingleOwner ==
    \A h \in 1 .. Len(handles) :
       handles[h].open => Cardinality(Holders(h)) + Cardinality(PoolSlots(h)) = 1

\* C5: the connection a request holds was opened against the host of the
\* request's URL.
C5_ConnectionMatchesHost ==
    \A e \in Executors :
       hConnect[e] # NullHandle => handles[hConnect[e]].host = config[e].host

(***************************************************************************)
(* Properties of the request queue and of Shutdown (SpecQueue).            *)
(***************************************************************************)
\* C6: once Shutdown has cleared isRunning, no step takes a queued task out
\* of the queue: a task that is queued stays queued, so it is never executed
\* and none of its callbacks is invoked.
C6_NoDequeueAfterStop ==
    [][~isRunning =>
         \A id \in 1 .. Len(tasks) :
            tasks[id].state = "queued" => tasks'[id] = tasks[id]]_vars

\* C7: with every thread scheduled and every running task terminating, a
\* Shutdown that has cleared isRunning returns: every worker exits and the
\* joins complete.
C7_ShutdownReturns == (cpc = "sd_notify") ~> (cpc = "shutdown_returned")

\* C8: when Shutdown returns, every worker thread has exited and every task
\* that a worker was executing when Shutdown began is done, its error
\* callback invoked if one was supplied.
C8_ShutdownJoinsWorkers ==
    cpc = "shutdown_returned" =>
       /\ workerThreads = {}
       /\ \A w \in Workers : wpc[w] = "exited"
       /\ \A id \in runningAtStop :
             /\ tasks[id].state = "done"
             /\ tasks[id].onError =>
                   tasks[id].onSuccessCalls + tasks[id].onErrorCalls >= 1

\* Shutdown returned after it began while a worker was executing a task
\* whose submitter supplied onError
C8_Witness ==
    /\ cpc = "shutdown_returned"
    /\ \E id \in runningAtStop :
          /\ tasks[id].onError
          /\ tasks[id].state = "done"
          /\ tasks[id].onErrorCalls = 1

(***************************************************************************)
(* Properties of the failure exits of the retry loop.                      *)
(***************************************************************************)
\* C11 (SpecContention): a pass of the loop in which GetConnection yields no
\* handle is the last pass of its call, on the first attempt as on a retry:
\* no backoff sleep and no attempt follows it, and the response of the call
\* has success = false.
C11_ConnectionFailureIsFinal ==
    \A e \in Executors :
        \A i \in 1 .. Len(attempts[e]) :
            attempts[e][i].kind = "connfail" =>
                /\ i = Len(attempts[e])
                /\ Len(sleeps[e]) = i - 1
                /\ pc[e] \notin {"loop", "acquire", "roundtrip", "return", "check",
                                 "sleep"}
                /\ response[e].success = FALSE
                /\ response[e].statusText = "Failed to get connection"

\* a call got no connection on its retry, after a first attempt answered 500
C11_Witness ==
    \E e \in Executors :
        /\ Returned(e)
        /\ Len(attempts[e]) = 2
        /\ attempts[e][1] = [kind |-> "status", status |-> 500]
        /\ attempts[e][2].kind = "connfail"
        /\ Len(sleeps[e]) = 1
        /\ response[e].success = FALSE

\* C12 (SpecRetry): an attempt whose send or receive fails, so that
\* ProcessRequest returns without a status code, is the last attempt of its
\* call even when retries remain: no backoff sleep and no attempt follows
\* it, and the call's response has success = false and carries the
\* diagnostic text of the failure.
C12_TransportFailureIsFinal ==
    \A e \in Executors :
        \A i \in 1 .. Len(attempts[e]) :
            attempts[e][i].kind \in {"sendfail", "recvfail"} =>
                /\ i = Len(attempts[e])
                /\ Len(sleeps[e]) = i - 1
                /\ pc[e] \notin {"loop", "acquire", "roundtrip", "sleep"}
                /\ response[e].success = FALSE
                /\ response[e].statusText \in {"Failed to send request",
                                               "Failed to receive response"}

\* C13 (SpecRetry): the first sleep of a call lasts initialDelay and every
\* later sleep backoffMultiplier times the one before it, i.e. the sleep
\* after failed attempt k lasts initialDelay * backoffMultiplier^k; a call
\* has slept once per retry, and once it has returned it has slept one time
\* less than it made attempts: no sleep follows the final attempt.
C13_BackoffSchedule ==
    \A e \in Executors :
        /\ \A k \in 1 .. Len(sleeps[e]) :
              sleeps[e][k] = IF k = 1 THEN InitialDelayMs
                             ELSE BackoffMultiplier * sleeps[e][k - 1]
        /\ Len(sleeps[e]) = retryCount[e]
        /\ Returned(e) => Len(sleeps[e]) = Len(attempts[e]) - 1

\* a call that made three attempts slept 1000 ms and then 2000 ms
C13_Witness ==
    \E e \in Executors :
        /\ Returned(e)
        /\ Len(attempts[e]) = 3
        /\ sleeps[e] = <<1000, 2000>>

(***************************************************************************)
(* Properties of SendBatchRequests (SpecBatch).                            *)
(***************************************************************************)
\* the response SendRequestWithRetry gives for request cfg when the passes
\* of its loop had the outcomes log
ResultFits(r, cfg, log) ==
    /\ Len(log) = 1
    /\ (log[1].kind = "parsefail") = ~cfg.urlOk
    /\ log[1].kind = "parsefail" => ~r.success /\ r.statusText = "Failed to parse URL"
    /\ log[1].kind = "connfail" =>
          ~r.success /\ r.statusText = "Failed to get connection"
    /\ log[1].kind = "status" =>
          r.statusCode = log[1].status /\ r.success = IsSuccessAnswer(log[1])

\* C14: the list given to onComplete has, at every index i, the response
\* that the task started for input request i returned, which is the
\* response to that request, whatever the order in which the tasks ended.
C14_BatchOrder ==
    (bpc = "called" /\ batchOnComplete) =>
        /\ Len(delivered) = Len(batchConfigs)
        /\ \A i \in 1 .. Len(batchConfigs) :
              /\ delivered[i] = futures[i].value
              /\ ResultFits(delivered[i], batchConfigs[i], futures[i].log)

\* a list of two was delivered whose second task ended first, with
\* different results
C14_Witness ==
    /\ bpc = "called"
    /\ batchOnComplete
    /\ completionOrder = <<2, 1>>
    /\ Len(delivered) = 2
    /\ delivered[1].success
    /\ ~delivered[2].success

Terminals(st) == {i \in 1 .. Len(st.events) : st.events[i] \in {"complete", "error"}}

\* a thread SendStreamRequest detached, given a completion and an error callback
IsStreamingTask(st) == st.pc # "rejected" /\ st.onComplete /\ st.onError

\* C16: a streaming task invokes at most one of onComplete and onError, at
\* most once, no callback follows it, and a task whose thread has ended has
\* invoked exactly one of them: every onData precedes the one terminal callback
C16_OneTerminalCallback ==
    \A s \in StreamIds :
        LET st == streams[s]
        IN  IsStreamingTask(st) =>
               /\ Cardinality(Terminals(st)) <= 1
               /\ \A i \in Terminals(st) : i = Len(st.events)
               /\ st.pc = "end" => Cardinality(Terminals(st)) = 1

(***************************************************************************)
(* Properties of the callbacks of SendRequestAsync (SpecAsync).            *)
(***************************************************************************)
\* C17: for every asynchronous request that a worker has executed and that
\* was given both callbacks, exactly one of onSuccess and onError has been
\* invoked, exactly once; before that none of them has been
C17_OneCallbackPerTask ==
    \A i \in 1 .. Len(tasks) :
        LET t == tasks[i]
        IN  t.onError /\ t.state # "rejected" =>
               t.onSuccessCalls + t.onErrorCalls = (IF t.state = "done" THEN 1 ELSE 0)

(***************************************************************************)
(* Properties of the response cache (SpecCache).                           *)
(***************************************************************************)
\* C18: the last get of a key was a hit if and only if the key had been put
\* and less than the ttl of its last put had elapsed since that put, and a hit
\* returned the response given to that put
C18_CacheLookup ==
    lookup # NoLookup =>
        LET live == /\ lookup.put # NoEntry
                    /\ lookup.at - lookup.put.timestamp < lookup.put.ttl
        IN  /\ lookup.hit <=> live
            /\ lookup.hit => lookup.response = lookup.put.response

\* a hit some minutes after the put, and before the ttl has elapsed
C18_Witness ==
    /\ lookup.hit
    /\ lookup.at > lookup.put.timestamp
    /\ lookup.response.statusCode = 404

(***************************************************************************)
(* Properties of the performance statistics (SpecRetry, SpecMetrics).      *)
(***************************************************************************)
RECURSIVE SumSeq(_)
SumSeq(q) == IF q = <<>> THEN 0 ELSE Head(q) + SumSeq(Tail(q))

\* C19: with one request at a time, after k completed requests the stored
\* averageResponseTime is the sum of their k response times divided by k
C19_SequentialMean ==
    /\ Len(samples) = doneCalls
    /\ samples # <<>> => averageResponseTime = Frac(SumSeq(samples), Len(samples))

\* two requests completed with unequal response times
C19_Witness ==
    /\ samples = <<100, 300>>
    /\ averageResponseTime = <<200, 1>>
    /\ doneCalls = 2

\* C20: the successRate that GetPerformanceMetrics returned is 100 times the
\* returned successfulRequests over the returned totalRequests, and 0 when
\* the returned totalRequests is 0
C20_SuccessRate ==
    metrics.valid =>
        metrics.successRate =
            IF metrics.totalRequests = 0 THEN <<0, 1>>
            ELSE Frac(100 * metrics.successfulRequests, metrics.totalRequests)

(***************************************************************************)
(* Properties of the life cycle (SpecLifecycle).                           *)
(***************************************************************************)
\* a step in which a thread enters one of the four entry points
EntersCall ==
    \/ calls' # calls
    \/ Len(tasks') # Len(tasks)
    \/ batchCalls' # batchCalls
    \/ Len(streams') # Len(streams)

\* C21: a call of SendRequest, SendRequestAsync, SendBatchRequests or
\* SendStreamRequest that finds the client not initialized changes neither
\* the pool, the handles, the queue nor the statistics and starts nothing:
\* SendRequest returns a response with success = false, SendRequestAsync and
\* SendStreamRequest have called the onError they were given
C21_UninitializedIsInert ==
    [][~isInitialized /\ EntersCall =>
          /\ UNCHANGED <<poolVars, requests, statVars>>
          /\ calls' # calls =>
                /\ pc'[RetryCaller] = "ret"
                /\ ~response'[RetryCaller].success
          /\ Len(tasks') # Len(tasks) =>
                /\ Last(tasks').state = "rejected"
                /\ Last(tasks').onError => Last(tasks').onErrorCalls = 1
          /\ batchCalls' # batchCalls =>
                /\ bpc' = "idle"
                /\ futures' = <<>>
                /\ onCompleteCalls' = onCompleteCalls
          /\ Len(streams') # Len(streams) =>
                /\ Last(streams').pc = "rejected"
                /\ Last(streams').onError => Last(streams').events = <<"error">>
    ]_vars

\* a client that was shut down, on which a call of each entry point was
\* turned away
C21_Witness ==
    /\ cpc = "shutdown_returned"
    /\ isShuttingDown
    /\ ~isInitialized
    /\ pc[RetryCaller] = "ret"
    /\ ~response[RetryCaller].success
    /\ tasks # <<>> /\ Last(tasks).onErrorCalls = 1
    /\ streams # <<>> /\ Last(streams).events = <<"error">>
    /\ batchCalls > 0

\* C22: when Initialize has returned false because WinHttpOpen gave no
\* session, the client is not initialized, has no session, no worker thread
\* exists and the queue is not running
C22_FailedInitialize ==
    cpc = "init_false" =>
        /\ ~isInitialized
        /\ hSession = "null"
        /\ ~isRunning
        /\ workerThreads = {}
        /\ \A w \in Workers : wpc[w] \in {"none", "exited"}

\* an Initialize call failed and a later one has succeeded
C22_Witness ==
    /\ initFailed
    /\ cpc = "init_true"
    /\ isInitialized
    /\ hSession = "open"
    /\ isRunning
    /\ workerThreads = Workers

(***************************************************************************)
(* Properties of concurrent statistics updates (SpecStats).                *)
(***************************************************************************)
\* the positions of a thread inside UpdatePerformanceStats
StatPcs == {"stat_total", "stat_outcome", "stat_bytes", "stat_loadavg", "stat_loadn",
            "stat_store"}

\* no thread is inside SendRequestWithRetry or UpdatePerformanceStats
NoUpdateInProgress == \A c \in Callers : pc[c] \in {"idle", "ret"}

\* C23: once every statistics update that was started has finished, the
\* stored averageResponseTime is the arithmetic mean of the response times
\* of all the updates, however the updates interleaved
C23_ConcurrentMean ==
    NoUpdateInProgress /\ samples # <<>> =>
        averageResponseTime = Frac(SumSeq(samples), Len(samples))

(***************************************************************************)
(* Properties of the connection of one attempt (SpecPool, SpecContention). *)
(***************************************************************************)
\* the positions at which a thread is inside an attempt and holds the
\* connection it acquired
HoldingPcs == {"roundtrip", "return"}

\* handle h is in the idle pool
InIdlePool(q, h) == \E i \in 1 .. Len(q) : q[i] = h

\* C24: at the step that ends an attempt, on whatever exit path, the
\* connection the attempt had acquired is back in the idle pool or closed,
\* and it has been closed at most once
C24_AttemptReleasesConnection ==
    [][\A e \in Executors :
          pc[e] \in HoldingPcs /\ pc'[e] \notin HoldingPcs /\ hConnect[e] # NullHandle =>
             /\ InIdlePool(connections', hConnect[e]) \/ ~handles'[hConnect[e]].open
             /\ handles'[hConnect[e]].closes <= 1
    ]_vars

\* the positions of a call between two attempts: the retry decision, the
\* backoff sleep, the loop test and the acquisition of the next connection
BetweenAttemptsPcs == {"check", "sleep", "loop", "acquire"}

\* C28: the attempts of one call do not overlap: the call holds no
\* connection when it decides on a retry, while it sleeps and when it
\* acquires the connection of its next attempt, the connection of the
\* attempt before was put back into the idle pool or closed at the step
\* that led there, and an acquisition gives the call the one connection it
\* holds
C28_AttemptsDoNotOverlap ==
    [][\A e \in Executors :
          /\ pc'[e] \in BetweenAttemptsPcs => hConnect'[e] = NullHandle
          /\ (pc[e] \in HoldingPcs /\ pc'[e] \in BetweenAttemptsPcs) =>
                 /\ hConnect[e] # NullHandle
                 /\ \/ InIdlePool(connections', hConnect[e])
                    \/ ~handles'[hConnect[e]].open
          /\ (pc[e] = "acquire" /\ pc'[e] = "roundtrip") =>
                 /\ hConnect[e] = NullHandle
                 /\ {x \in Executors : hConnect'[x] = hConnect'[e]} = {e}
                 /\ ~InIdlePool(connections', hConnect'[e])
    ]_vars

\* a call that has slept once holds the connection of its second attempt
C28_Witness ==
    \E e \in Executors :
        /\ Len(sleeps[e]) = 1
        /\ Len(attempts[e]) = 1
        /\ pc[e] = "roundtrip"
        /\ hConnect[e] # NullHandle

(***************************************************************************)
(* Properties of the dispatch of tasks (SpecDispatch).                     *)
(***************************************************************************)
\* task id is in the request queue
IsQueued(id) == id <= Len(tasks) /\ tasks[id].state = "queued"

\* a worker has executed task id to its end
IsDone(id) == id <= Len(tasks) /\ tasks[id].state = "done"

\* C25: while the client stays initialized and every thread is scheduled,
\* every task that SendRequestAsync put into the queue is taken by a worker
\* and executed to its end
C25_QueuedTaskIsExecuted == \A id \in 1 .. MaxTasks : IsQueued(id) ~> IsDone(id)

\* every submitted task has been executed
C25_Witness ==
    /\ Len(tasks) = MaxTasks
    /\ \A id \in 1 .. MaxTasks : IsDone(id)
    /\ isInitialized

\* a worker has removed task id from the queue
IsDequeued(id) == id <= Len(tasks) /\ tasks[id].state \in {"taken", "running", "done"}

\* C26: tasks leave the queue in the order in which they entered it (task
\* ids count the enqueues): a task is never dequeued while a task enqueued
\* before it is still in the queue
C26_FifoDequeue ==
    \A a \in 1 .. MaxTasks : \A b \in 1 .. MaxTasks :
        (a < b /\ IsDequeued(b)) => ~IsQueued(a)

\* the later task has completed while the earlier one, dequeued first, is
\* still being executed
C26_Witness ==
    \E a \in 1 .. MaxTasks : \E b \in 1 .. MaxTasks :
        /\ a < b
        /\ IsDone(b)
        /\ IsDequeued(a)
        /\ ~IsDone(a)

(***************************************************************************)
(* Properties of the retry loop as a whole (SpecRetry).                    *)
(***************************************************************************)
\* the retry policy permits another attempt after attempt k of thread e: the
\* attempt was answered with a retryable status code and retries remain
PolicyPermitsRetry(e, k) ==
    /\ k <= maxRetries
    /\ attempts[e][k].kind = "status"
    /\ attempts[e][k].status \in RetryableStatusCodes

\* C27: a call makes at most maxRetries + 1 attempts and sleeps at most
\* maxRetries times, so it ends once its transport calls return; it goes
\* from a failed attempt to the backoff sleep and a new attempt only when
\* the retry policy permits it
C27_BoundedRetries ==
    \A e \in Executors :
        /\ Len(attempts[e]) <= maxRetries + 1
        /\ Len(sleeps[e]) <= maxRetries
        /\ \A k \in 1 .. Len(sleeps[e]) : PolicyPermitsRetry(e, k)
        /\ pc[e] = "sleep" => PolicyPermitsRetry(e, Len(attempts[e]))

(***************************************************************************)
(* Properties of the pool at shutdown (SpecTeardown).                      *)
(***************************************************************************)
\* C29: at the step at which Shutdown returns the idle pool is empty and
\* every closed connection has been closed exactly once; at no time does
\* the idle pool hold a closed connection
C29_ShutdownEmptiesPool ==
    [][/\ (cpc # "shutdown_returned" /\ cpc' = "shutdown_returned") =>
             /\ connections' = <<>>
             /\ \A h \in 1 .. Len(handles') :
                   ~handles'[h].open => handles'[h].closes = 1
       /\ \A i \in 1 .. Len(connections') : handles'[connections'[i]].open
    ]_vars

(***************************************************************************)
(* Properties of the worker pool over Initialize and Shutdown calls        *)
(* (SpecInitRace, SpecLifecycle).                                          *)
(***************************************************************************)
\* the worker threads that have been started and have not ended
LiveWorkers ==
    Cardinality({w \in Workers : wpc[w] \notin {"none", "exited"}}) + surplusThreads

\* no thread is inside Initialize or Shutdown
LifecycleAtRest == cpc \in RestingPcs /\ ipc \in RestingPcs

\* C30: however calls of Initialize and Shutdown follow or overlap each
\* other, there are never more than NumWorkers live worker threads, there
\* are exactly NumWorkers whenever the client is initialized and no such
\* call is in progress, and an Initialize call that finds the client
\* initialized returns true and starts no worker
C30_WorkerCount ==
    [][/\ LiveWorkers' <= NumWorkers
       /\ (isInitialized' /\ LifecycleAtRest') => LiveWorkers' = NumWorkers
       /\ (isInitialized /\ cpc \in RestingPcs /\ cpc' # cpc
              /\ cpc' \in {"init_true", "init_false", "init_spawn"})
             => cpc' = "init_true" /\ LiveWorkers' = LiveWorkers
       /\ (isInitialized /\ ipc = "idle" /\ ipc' # "idle")
             => ipc' = "init_true" /\ LiveWorkers' = LiveWorkers
    ]_vars

(***************************************************************************)
(* Properties of the streaming thread towards the shared structures        *)
(* (SpecStream).                                                           *)
(***************************************************************************)
\* C31: a step of SendStreamRequest or of a thread it detached leaves the
\* request queue, the tasks, the response cache, the idle pool and the
\* pool's counter as they were
C31_StreamLeavesSharedState ==
    [][streams' # streams =>
          /\ requests' = requests
          /\ tasks' = tasks
          /\ cache' = cache
          /\ lookup' = lookup
          /\ connections' = connections
          /\ currentConnections' = currentConnections
    ]_vars

\* a streaming thread has ended after it opened a connection of its own,
\* delivered data and completed
C31_Witness ==
    \E s \in StreamIds :
        /\ streams[s].pc = "end"
        /\ streams[s].hConnect # NullHandle
        /\ streams[s].chunks > 0
        /\ streams[s].events # <<>>
        /\ Last(streams[s].events) = "complete"
        /\ connections = <<>>

(***************************************************************************)
(* Properties of a worker whose task meets a fault (SpecFault).            *)
(***************************************************************************)
\* C32: the step that ends the execution of a task, whether the request
\* or onSuccess raised an exception or not, takes the worker back to the
\* top of its loop with the task done; after a fault the task has reported
\* through onError
C32_FaultStaysInTask ==
    [][\A w \in Workers :
          (wpc[w] = "running" /\ wpc'[w] # "running") =>
             /\ wpc'[w] = "top"
             /\ tasks'[wtask[w]].state = "done"
             /\ (tasks'[wtask[w]].onError /\ ~response[w].success)
                   => tasks'[wtask[w]].onErrorCalls = 1
    ]_vars

(***************************************************************************)
(* Properties of the queue mutex (SpecFault).                              *)
(***************************************************************************)
\* C33: a worker that is executing a task, from the call of the closure to
\* the return of its callback, does not hold the queue mutex
C33_ExecutionOutsideMutex ==
    \A w \in Workers : wpc[w] \in {"exec", "running"} => queueMutex # w

\* one worker is inside the round trip of its task while another holds the
\* queue mutex and is about to dequeue the next task
C33_Witness ==
    \E w \in Workers : \E v \in Workers :
        /\ w # v
        /\ wpc[w] = "running"
        /\ pc[w] = "roundtrip"
        /\ wpc[v] = "deq"
        /\ queueMutex = v
        /\ requests # <<>>

(***************************************************************************)
(* Properties of the queue over Shutdown and a later Initialize            *)
(* (SpecRestart).                                                          *)
(***************************************************************************)
\* the positions of the controlling thread inside Shutdown
ShutdownPcs == {"sd_notify", "sd_join", "sd_session", "sd_flag"}

\* C34: a task that was in the queue when Shutdown began and is still there
\* when Shutdown has returned is never dequeued afterwards, whether or not
\* Initialize is called again
C34_LeftoverTaskNeverRuns ==
    [][\A id \in queuedAtStop :
          (IsQueued(id) /\ IsDequeued(id)') => cpc \in ShutdownPcs
    ]_vars

(***************************************************************************)
(* Properties of the pool's counter (SpecTeardown).                        *)
(***************************************************************************)
\* C35: the counter of the pool equals the number of connections in the
\* idle queue (GetConnection, ReturnConnection and the cleanup of Shutdown
\* are each one step under the pool mutex, so no state lies inside a pool
\* operation)
C35_CounterMatchesIdleQueue == currentConnections = Len(connections)

(***************************************************************************)
(* Properties of requests in flight during Shutdown (SpecTeardown).        *)
(***************************************************************************)
\* the positions at which a streaming thread works on handles it obtained
\* from the session
StreamTransportPcs == {"open", "send", "receive", "read"}

\* C36: a request thread performs a round trip on its connection, and a
\* streaming thread a transport call on its handles, only while the session
\* the handles belong to is open
C36_NoTransportAfterClose ==
    [][/\ \A e \in Executors :
             (pc[e] = "roundtrip" /\ pc'[e] # "roundtrip") => hSession = "open"
       /\ \A s \in StreamIds :
             (streams[s].pc \in StreamTransportPcs /\ streams'[s] # streams[s])
                => hSession = "open"
    ]_vars

\* C37: once Shutdown has returned with the idle pool empty, the pool stays
\* empty as long as Initialize is not called: no request that was in flight
\* puts its connection into it
C37_PoolStaysEmptyAfterShutdown ==
    [][(/\ cpc = "shutdown_returned"
        /\ cpc' = "shutdown_returned"
        /\ connections = <<>>)
       => connections' = <<>>
    ]_vars

(***************************************************************************)
(* Properties of the counters under updates and resets (SpecStatsReset).   *)
(***************************************************************************)
\* C38: whenever no thread is inside a request or its statistics update
\* (ResetPerformanceMetrics is one step, so none is ever in the middle of
\* it), totalRequests is the sum of successfulRequests and failedRequests
C38_CountersAddUp ==
    NoUpdateInProgress => totalRequests = successfulRequests + failedRequests

(***************************************************************************)
(* Properties of the ownership of a dequeued task (SpecDispatch).          *)
(***************************************************************************)
\* C39: a task is dequeued at most once: the queue holds every task at most
\* once and only tasks no worker has taken, and no two workers hold the
\* same task
C39_DequeuedAtMostOnce ==
    /\ \A i \in 1 .. Len(requests) :
          /\ IsQueued(requests[i])
          /\ \A j \in 1 .. Len(requests) : requests[i] = requests[j] => i = j
    /\ \A w \in Workers : \A v \in Workers :
          (w # v /\ wtask[w] # 0) => wtask[w] # wtask[v]

\* two workers execute two different tasks at the same time
C39_Witness ==
    \E w \in Workers : \E v \in Workers :
        /\ w # v
        /\ wpc[w] = "running"
        /\ wpc[v] = "running"
        /\ wtask[w] # 0
        /\ wtask[v] # 0
        /\ wtask[w] # wtask[v]

(***************************************************************************)
(* Properties of the handles of a streaming thread (SpecStream).           *)
(***************************************************************************)
\* C40: a streaming thread that has ended after it opened a connection has
\* closed the connection exactly once, and has closed the request handle if
\* it created one, on whatever path it ended
C40_StreamClosesHandles ==
    \A s \in StreamIds :
        (streams[s].pc = "end" /\ streams[s].hConnect # NullHandle) =>
            /\ ~handles[streams[s].hConnect].open
            /\ handles[streams[s].hConnect].closes = 1
            /\ streams[s].hRequest \in {"none", "closed"}

====
